---------------------------- MODULE Spec2Model ----------------------------
(***************************************************************************)
(* A model of the story generation orchestration of Citra-Ramayana:        *)
(*   - services/geminiService (src/unnamed/part_000): response validation   *)
(*     and the two pipelines generateStoryAndImages/continueStoryAndImages, *)
(*   - App (src/unnamed/part_001): the session state (storyHistory, ...)    *)
(*     and the handlers that start the pipelines and apply their callbacks. *)
(*                                                                         *)
(* Conventions.  JavaScript arrays are TLA+ sequences, so positions are     *)
(* 1-based here: scene index i of the code is position i+1 of the model,    *)
(* activeStoryIndex = null is NoIndex (0), and version index k of the code  *)
(* is position k+1 of storyHistory.  undefined / null images are the        *)
(* values Pending / Failed.  One action is one run of a continuation: from  *)
(* the resolution of the promise it awaits to its next await of a remote    *)
(* call, a file read or a timer.  The caller's reaction to the settlement   *)
(* of a pipeline (.catch, the code after allSettled, catch and finally) is  *)
(* an action of its own, which runs before any other event is handled.      *)
(***************************************************************************)
EXTENDS Integers, Sequences, FiniteSets, TLC

(***************************************************************************)
(* Bounds of the model.                                                    *)
(***************************************************************************)
\* longest list in a raw response handed to validation alone (SpecParse)
ParseMaxLen == 3
\* longest list a remote story response carries in the session
MaxLen == 2
\* most scenes the session holds: a remote story answer is no longer than what is left
MaxScenes == 3
\* most versions of the session of single-version requests and continuations (Spec)
MaxHistory == 1
\* most versions of the session of batches (SpecBatch), so also the largest batch
MaxBatch == 2
\* follow-up actions: scenes of a story, and follow-up requests started
MaxFollowLen == 3
MaxFollowUps == 2
MaxFollowHistory == 1
\* scenes of a story in the session that only regenerates images
MaxRegenLen == 4
\* follow-up actions and continuations across versions: scenes of a new story,
\* versions, and follow-up requests started
MaxSwitchLen == 1
MaxSwitchHistory == 2
MaxSwitchUps == 1
\* most follow-up requests any session starts: the session of a regenerated
\* scene that then gets a video prompt and an edit (SpecOverlap)
MaxStarted == 3
\* the session of requests on whatever the form holds (SpecRequest): versions,
\* and scenes of a story
MaxRequestHistory == 2
MaxRequestLen == 1

(***************************************************************************)
(* Values.                                                                 *)
(***************************************************************************)
NoIndex == 0

\* every text of the model is a triple <<kind, a, b>>
Text(kind, a, b) == <<kind, a, b>>

Undefined == Text("undefined", 0, 0)

\* Scene.image: undefined while loading, null when generation failed
Pending == Undefined
Failed  == Text("null", 0, 0)

\* the messages of the errors the service throws
MsgMalformed   == "AI response was malformed and is missing required story data."
MsgEmpty       == "AI generated an empty story. Please try again."
MsgUnparsable  == "Could not understand the story structure from the AI. Please check the console for details."
MsgNoImages    == "Failed to generate any images. This could be due to API restrictions or a network issue. Please try again."
MsgNoNewImages == "Failed to generate any new images. Please try again."
MsgNoImageData == "Image generation failed, no image data received."
MsgNoEditData  == "Image editing failed, no image data received."
\* messages of errors thrown by the runtime or the SDK, not by the service
MsgSyntaxError == "SyntaxError: Unexpected token"
MsgTypeError   == "TypeError: Cannot read properties"
MsgTransport   == "ApiError: request failed"
\* `response.text.trim()` of generateVideoPrompt on an answer without text
MsgNoText      == "Cannot read properties of undefined (reading 'trim')"
\* `baseImage.split(',')` of editImage on an image that is null
MsgNoSplit     == "Cannot read properties of null (reading 'split')"

(***************************************************************************)
(* Response validation (pure).                                             *)
(*                                                                         *)
(* A raw response is [text, storyTitle, storyParagraphs, imagePrompts]:     *)
(* text says what JSON.parse makes of the response text                     *)
(*   "object"  an object with the three fields below,                      *)
(*   "null"    the JSON value null (reading a property of it throws),       *)
(*   "notjson" text JSON.parse rejects,                                     *)
(*   "notext"  response.text is undefined (trim() throws);                  *)
(* a list field is [tag, items] with tag                                    *)
(*   "missing" (undefined), "null", "string" (a truthy non-array) or        *)
(*   "array" (items is the array).                                          *)
(***************************************************************************)
Field(tag, items) == [tag |-> tag, items |-> items]

\* JavaScript truthiness of a field value: every array, also [], is truthy
Truthy(v) == v.tag \in {"string", "array"}

IsArray(v) == v.tag = "array"

Min(a, b) == IF a <= b THEN a ELSE b

\* Array.prototype.slice(0, n)
SliceSuffix(s, n) == SubSeq(s, Len(s) - Min(n, Len(s)) + 1, Len(s))
Slice(s, n) == SubSeq(s, 1, Min(n, Len(s)))

\* what a call returns or throws
Returned(title, paragraphs, prompts) ==
    [ok |-> TRUE, error |-> "", storyTitle |-> title,
     storyParagraphs |-> paragraphs, imagePrompts |-> prompts]
Thrown(message) ==
    [ok |-> FALSE, error |-> message, storyTitle |-> Undefined,
     storyParagraphs |-> <<>>, imagePrompts |-> <<>>]

\* the test `paragraphsCount === 0 || promptsCount === 0`
IsEmptyStory(paragraphsCount, promptsCount) ==
    paragraphsCount = 0 \/ promptsCount = 0

\* the trimming of the two lists to the smaller count
TrimNone(list, minCount) == list
TrimTo(list, minCount) == Slice(list, minCount)

\* the try block of parseAndValidateStoryResponse
TryParse(response) ==
    IF response.text = "notext" THEN Thrown(MsgTypeError)
    ELSE IF response.text = "notjson" THEN Thrown(MsgSyntaxError)
    ELSE IF response.text = "null" THEN Thrown(MsgTypeError)
    ELSE IF \/ ~Truthy(response.storyParagraphs)
            \/ ~IsArray(response.storyParagraphs)
            \/ ~Truthy(response.imagePrompts)
            \/ ~IsArray(response.imagePrompts)
         THEN Thrown(MsgMalformed)
    ELSE LET paragraphsCount == Len(response.storyParagraphs.items)
             promptsCount == Len(response.imagePrompts.items)
             minCount == Min(paragraphsCount, promptsCount)
         IN  IF IsEmptyStory(paragraphsCount, promptsCount)
             THEN Thrown(MsgEmpty)
             ELSE IF paragraphsCount # promptsCount
             THEN Returned(response.storyTitle,
                           TrimTo(response.storyParagraphs.items, minCount),
                           TrimTo(response.imagePrompts.items, minCount))
             ELSE Returned(response.storyTitle,
                           response.storyParagraphs.items,
                           response.imagePrompts.items)

\* e.message.startsWith("AI response was malformed") || startsWith("AI generated an empty story")
IsOwnError(message) == message \in {MsgMalformed, MsgEmpty}

\* the catch block: the service's own two errors pass, any other is replaced
CatchAll(thrown) == Thrown(MsgUnparsable)
CatchParse(thrown) ==
    IF IsOwnError(thrown.error) THEN thrown ELSE Thrown(MsgUnparsable)

parseAndValidateStoryResponse(response) ==
    LET tried == TryParse(response)
    IN  IF tried.ok THEN tried ELSE CatchParse(tried)

\* what generateStoryAndPrompts makes of the remote call's outcome
generateStoryAndPrompts(outcome) ==
    IF outcome.transport = "rejected" THEN Thrown(MsgTransport)
    ELSE parseAndValidateStoryResponse(outcome.response)

\* continueStoryAndPrompts: the same validation, storyTitle dropped
continueStoryAndPrompts(outcome) ==
    IF outcome.transport = "rejected" THEN Thrown(MsgTransport)
    ELSE LET parsed == parseAndValidateStoryResponse(outcome.response)
         IN  IF parsed.ok
             THEN Returned(Undefined, parsed.storyParagraphs, parsed.imagePrompts)
             ELSE parsed

(***************************************************************************)
(* The raw responses validation is checked on.                             *)
(***************************************************************************)
RECURSIVE SeqsUpTo(_, _)
SeqsUpTo(S, n) ==
    IF n = 0 THEN {<<>>}
    ELSE LET shorter == SeqsUpTo(S, n - 1)
         IN  shorter \cup {Append(s, x) : s \in {t \in shorter : Len(t) = n - 1}, x \in S}

ParseItems == {Text("a", 0, 0), Text("b", 0, 0)}

ParseFields ==
    {Field("missing", <<>>), Field("null", <<>>), Field("string", <<>>)}
    \cup {Field("array", s) : s \in SeqsUpTo(ParseItems, ParseMaxLen)}

Response(text, title, paragraphs, prompts) ==
    [text |-> text, storyTitle |-> title,
     storyParagraphs |-> paragraphs, imagePrompts |-> prompts]

ParseResponses ==
    {Response("object", Text("title", 0, 0), p, q) : p \in ParseFields, q \in ParseFields}
    \cup {Response(t, Undefined, Field("missing", <<>>), Field("missing", <<>>)) :
              t \in {"null", "notjson", "notext"}}

Resolved(response) == [transport |-> "resolved", response |-> response]
Rejected == [transport |-> "rejected",
             response |-> Response("notext", Undefined, Field("missing", <<>>), Field("missing", <<>>))]

NotValidated == [by |-> "none", result |-> Thrown("")]

(***************************************************************************)
(* Session values.                                                         *)
(*                                                                         *)
(* Every text (title, paragraph, prompt, image data) is a triple            *)
(* <<kind, a, b>>.  What the remote service returns is tagged with the call *)
(* it answers: the story of the pipeline started for position pos has title *)
(* <<"title", pos, 0>>, paragraphs <<"par", pos, i>> and prompts            *)
(* <<"prm", pos, i>>; the image generated from prompt <<"prm", pos, i>> is  *)
(* <<"img", pos, i>>.                                                       *)
(***************************************************************************)
TGenerating(n, i) == Text("generating", IF n > 1 THEN i ELSE 0, 0)
TErrorTitle == Text("errorTitle", 0, 0)
Message(m) == Text(m, 0, 0)
\* the data URL generateImage returns for a prompt
ImageFor(prompt) == Text("img", prompt[2], prompt[3])

\* the lists of a remote story answer: `len` items numbered from base + 1
Items(kind, pos, base, len) == [i \in 1..len |-> Text(kind, pos, base + i)]

StoryFields(kind, pos, base, maxLen) ==
    {Field("missing", <<>>)} \cup {Field("array", Items(kind, pos, base, l)) : l \in 0..maxLen}

\* the outcomes of the remote story call of the pipeline of position pos
StoryOutcomes(pos, base, maxLen) ==
    {Rejected,
     Resolved(Response("notjson", Undefined, Field("missing", <<>>), Field("missing", <<>>)))}
    \cup {Resolved(Response("object", Text("title", pos, base), p, q)) :
              p \in StoryFields("par", pos, base, maxLen),
              q \in StoryFields("prm", pos, base, maxLen)}

\* imagePrompts[i] of JavaScript: undefined past the end
AtNext(list, i) == IF i + 1 \in DOMAIN list THEN list[i + 1] ELSE Undefined
At(list, i) == IF i \in DOMAIN list THEN list[i] ELSE Undefined

\* A scene.  The optional fields videoPrompt, isVideoPromptLoading and
\* isRegenerating are absent from a new scene: absent reads as undefined, which
\* the code tests for truth only.
NewScene(paragraph, imagePrompt) ==
    [paragraph |-> paragraph, imagePrompt |-> imagePrompt, image |-> Pending,
     videoPrompt |-> Undefined, isVideoPromptLoading |-> FALSE,
     isRegenerating |-> FALSE]

\* JavaScript truth of a `string | null | undefined`
TruthyText(t) == t[1] \notin {"undefined", "null", ""}

\* `!scene.image` of the buttons and `!currentStory.scenes[sceneIndex].image` of
\* the handlers, negated: the scene has a ready image
AnyImage(scene) == TRUE
ReadyImage(scene) == TruthyText(scene.image)

\* Elements of a scene array that are no scene: the empty slot an assignment
\* past the end leaves behind (array methods skip it), and the undefined
\* element a spread copy makes of an empty slot.
Hole == NewScene(Text("<empty slot>", 0, 0), Undefined)
UndefinedElement == NewScene(Text("<undefined>", 0, 0), Undefined)
IsScene(element) == element \notin {Hole, UndefinedElement}

\* `[...story.scenes]`
Copy(scenes) ==
    [k \in DOMAIN scenes |-> IF scenes[k] = Hole THEN UndefinedElement ELSE scenes[k]]

\* `newScenes[index]`: whether it is truthy, and what `{...newScenes[index]}`
\* spreads (spreading undefined gives no field at all)
Has(scenes, index) == index \in DOMAIN scenes /\ IsScene(scenes[index])
Spread(scenes, index) ==
    IF Has(scenes, index) THEN scenes[index] ELSE NewScene(Undefined, Undefined)

\* `newScenes[index] = scene` on the copy
Assign(scenes, index, scene) ==
    LET copy == Copy(scenes)
        length == IF index > Len(copy) THEN index ELSE Len(copy)
    IN  [k \in 1..length |->
            IF k = index THEN scene
            ELSE IF k <= Len(copy) THEN copy[k] ELSE Hole]

\* `{...scene, ...patch}`
Patch(scene, patch) ==
    [field \in DOMAIN scene |->
        IF field \in DOMAIN patch THEN patch[field] ELSE scene[field]]

(***************************************************************************)
(* The image loop shared by the two pipelines (lines 271-288 and 330-347    *)
(* of the service are the same text).  A pipeline is a record               *)
(*   pos, storyId   the version it was started for (position and id)        *)
(*   pc             "encode" reading the character files, "hung" when a     *)
(*                  read failed (see Encoded), "story" awaiting the         *)
(*                  story call, "img" awaiting generateImage,               *)
(*                  "backoff" awaiting the 1 s timer, "returned" once the   *)
(*                  function has returned or thrown, "done" once the        *)
(*                  caller's handler of that has run                        *)
(*   prompts, i, failedImageCount   the locals of the function              *)
(*   reqs           the image requests issued and not yet resolved,         *)
(*                  <<scene, attempt>>                                      *)
(*   issued, results, outcome    per scene: how many requests were issued,  *)
(*                  how each resolved (TRUE: an image), and what was handed *)
(*                  to the image callback ("none" before)                   *)
(*   storyCalls, story, storyCbs   how often the story call was issued, how *)
(*                  it ended ("none", "ok", "failed"), and how often the    *)
(*                  story callback was invoked                              *)
(*   imageCbs       per scene: how often the image callback was invoked     *)
(*   settled        "pending", "fulfilled" or "rejected"; error the message *)
(*   reports        the calls of updateProgress so far, in order            *)
(*   batch          the call of handleGenerate it belongs to (0 for a       *)
(*                  continuation)                                           *)
(***************************************************************************)
\* a call updateProgress(step, progress): progress is undefined (NoProgress)
\* or { current, total }
NoProgress == [current |-> -1, total |-> -1]
Progress(current, total) == [current |-> current, total |-> total]
Report(step, progress) == [step |-> step, progress |-> progress]

NewPipe(pos, storyId) ==
    [pos |-> pos, storyId |-> storyId, pc |-> "encode", prompts |-> <<>>,
     i |-> 0, failedImageCount |-> 0, reqs |-> {}, issued |-> <<>>,
     results |-> <<>>, outcome |-> <<>>, storyCalls |-> 0, story |-> "none",
     storyCbs |-> 0, imageCbs |-> <<>>, settled |-> "pending", error |-> "",
     reports |-> <<>>, batch |-> 0]

NoPipe == [NewPipe(0, 0) EXCEPT !.pc = "idle"]

\* the scenes whose request the loop issues on entering iteration i
RequestAllAtOnce(i, total) == IF i = 1 THEN 1..total ELSE {}
RequestAhead(i, total) == {i, i + 1}
RequestsAt(i, total) == {i}

\* generateImage(...).catch(retry): only the first call's rejection is retried
RetryTwice(attempt) == attempt <= 2
ShouldRetry(attempt) == attempt = 1

Issue(pipe, scenes, attempt) ==
    [pipe EXCEPT !.pc = "img",
                 !.reqs = @ \cup {<<s, attempt>> : s \in scenes},
                 !.issued = [s \in DOMAIN @ |-> IF s \in scenes THEN @[s] + 1 ELSE @[s]]]

\* `failedImageCount > 0 && failedImageCount === imagePrompts.length`
AnyImageFailed(failedImageCount, total) == failedImageCount > 0
AllImagesFailed(failedImageCount, total) ==
    failedImageCount > 0 /\ failedImageCount = total
ContAllImagesFailed(failedImageCount, total) ==
    failedImageCount > 0 /\ failedImageCount = total

RejectAfterReport(pipe, message) ==
    [pipe EXCEPT !.pc = "returned", !.settled = "rejected", !.error = message,
                 !.reports = Append(@, Report(4, NoProgress))]
Reject(pipe, message) ==
    [pipe EXCEPT !.pc = "returned", !.settled = "rejected", !.error = message]
\* updateProgress(4) and the return
Fulfil(pipe) ==
    [pipe EXCEPT !.pc = "returned", !.settled = "fulfilled",
                 !.reports = Append(@, Report(4, NoProgress))]

\* the story call is awaited once; its rejection leaves the function
RetryStory(pipe, message) ==
    [pipe EXCEPT !.pc = "story", !.story = "failed", !.storyCalls = @ + 1]
StoryFailedSilently(pipe, message) == Fulfil([pipe EXCEPT !.story = "failed"])
StoryFailed(pipe, message) == Reject([pipe EXCEPT !.story = "failed"], message)

\* updateProgress(1) and the story call
CallStory(pipe) ==
    [pipe EXCEPT !.pc = "story", !.storyCalls = @ + 1,
                 !.reports = Append(@, Report(1, NoProgress))]

\* fileToGenerativePart: onloadend fires when the read ends, loaded or not.
\* After a failed read reader.result is null, `.split` throws inside the
\* event handler and the promise the pipeline awaits is never settled.
Encoded(pipe, loaded) ==
    IF loaded THEN CallStory(pipe) ELSE [pipe EXCEPT !.pc = "hung"]

\* the story callback was invoked with these prompts, updateProgress(2) and
\* updateProgress(3, {0, total}) were called; the loop starts at scene 0
StartLoop(pipe, imagePrompts) ==
    Issue([pipe EXCEPT !.prompts = imagePrompts, !.i = 1, !.story = "ok",
                       !.storyCbs = @ + 1,
                       !.issued = [s \in DOMAIN imagePrompts |-> 0],
                       !.results = [s \in DOMAIN imagePrompts |-> <<>>],
                       !.imageCbs = [s \in DOMAIN imagePrompts |-> 0],
                       !.outcome = [s \in DOMAIN imagePrompts |-> "none"],
                       !.reports = @ \o <<Report(2, NoProgress),
                                          Report(3, Progress(0, Len(imagePrompts)))>>],
          RequestsAt(1, Len(imagePrompts)) \cap DOMAIN imagePrompts, 1)

\* the end of iteration i, after the image callback and
\* updateProgress(3, {i + 1, total}): the next request, or the loop is left
StopAtFailure(pipe, allFailed, message) ==
    LET total == Len(pipe.prompts)
        next == [pipe EXCEPT !.imageCbs[pipe.i] = @ + 1, !.i = @ + 1,
                             !.reports = Append(@, Report(3, Progress(pipe.i, total)))]
    IN  IF pipe.outcome[pipe.i] = "failed" THEN Reject(next, message)
        ELSE IF next.i <= total
        THEN Issue(next, RequestsAt(next.i, total) \cap (1..total), 1)
        ELSE Fulfil(next)
EndIteration(pipe, allFailed, message) ==
    LET total == Len(pipe.prompts)
        next == [pipe EXCEPT !.imageCbs[pipe.i] = @ + 1, !.i = @ + 1,
                             !.reports = Append(@, Report(3, Progress(pipe.i, total)))]
    IN  IF next.i <= total
        THEN Issue(next, RequestsAt(next.i, total) \cap (1..total), 1)
        ELSE IF allFailed THEN Reject(next, message) ELSE Fulfil(next)

\* the image handed to the callback for an outcome of the awaited request
ImageOf(pipe, req, ok) == IF ok THEN ImageFor(pipe.prompts[req[1]]) ELSE Failed

\* the pipeline after the request req resolved, before the end of the iteration
Resolve(pipe, req, ok) ==
    LET taken == [pipe EXCEPT !.reqs = @ \ {req},
                              !.results[req[1]] = Append(@, ok)]
    IN  IF ok
        THEN [taken EXCEPT !.outcome[req[1]] = "ready"]
        ELSE IF ShouldRetry(req[2])
        THEN [taken EXCEPT !.pc = "backoff"]
        ELSE [taken EXCEPT !.outcome[req[1]] = "failed",
                           !.failedImageCount = @ + 1]

\* whether the resolution of req ends the iteration (callback, progress, i++)
EndsIteration(req, ok) == ok \/ ~ShouldRetry(req[2])

(***************************************************************************)
(* App: the callbacks of handleGenerate, as functions of the collection.   *)
(***************************************************************************)
\* `story.id !== storyId`, `story.id === storyId`
MatchesAny(story, storyId) == TRUE
Matches(story, storyId) == story.id = storyId

onStoryGenerated(prev, storyId, title, paragraphs, imagePrompts) ==
    LET F(story, k) ==
            IF ~Matches(story, storyId) THEN story
            ELSE [story EXCEPT
                    !.title = title,
                    !.scenes = [i \in 1..Len(paragraphs) |->
                                   NewScene(paragraphs[i], At(imagePrompts, i))]]
    IN  [k \in 1..Len(prev) |-> F(prev[k], k)]

onImageGenerated(prev, storyId, image, imgIndex) ==
    LET F(story, k) ==
            IF ~Matches(story, storyId) THEN story
            ELSE IF Has(story.scenes, imgIndex)
            THEN [story EXCEPT !.scenes = [Copy(@) EXCEPT ![imgIndex].image = image]]
            ELSE [story EXCEPT !.scenes = Copy(@)]
    IN  [k \in 1..Len(prev) |-> F(prev[k], k)]

\* the .catch of one version's pipeline
AppendErrorScene(prev, storyId, message) ==
    [k \in 1..Len(prev) |->
        IF Matches(prev[k], storyId)
        THEN [prev[k] EXCEPT
                !.title = TErrorTitle,
                !.scenes = @ \o <<[NewScene(Message(message), Text("", 0, 0))
                                      EXCEPT !.image = Failed]>>,
                !.isLoading = FALSE]
        ELSE prev[k]]
ErrorKeepsLoading(prev, storyId, message) ==
    [k \in 1..Len(prev) |->
        IF Matches(prev[k], storyId)
        THEN [prev[k] EXCEPT
                !.title = TErrorTitle,
                !.scenes = <<[NewScene(Message(message), Text("", 0, 0))
                                 EXCEPT !.image = Failed]>>]
        ELSE prev[k]]
DropFailedVersion(prev, storyId, message) ==
    SelectSeq(prev, LAMBDA story : ~Matches(story, storyId))
onGenerateError(prev, storyId, message) ==
    LET F(story, k) ==
            IF Matches(story, storyId)
            THEN [story EXCEPT
                    !.title = TErrorTitle,
                    !.scenes = <<[NewScene(Message(message), Text("", 0, 0))
                                     EXCEPT !.image = Failed]>>,
                    !.isLoading = FALSE]
            ELSE story
    IN  [k \in 1..Len(prev) |-> F(prev[k], k)]

\* results.forEach after Promise.allSettled
onAllSettled(prev, pipes) ==
    LET F(story, k) ==
            IF \E p \in DOMAIN pipes :
                   pipes[p].settled = "fulfilled" /\ story.id = pipes[p].storyId
            THEN [story EXCEPT !.isLoading = FALSE]
            ELSE story
    IN  [k \in 1..Len(prev) |-> F(prev[k], k)]

(***************************************************************************)
(* App: the callbacks of handleContinueStory.                              *)
(***************************************************************************)
appendNewStoryParts(prev, index, mode, paragraphs, imagePrompts) ==
    [k \in 1..Len(prev) |->
        IF k # index THEN prev[k]
        ELSE [prev[k] EXCEPT
                !.scenes = Copy(@) \o [i \in 1..Len(paragraphs) |->
                                    NewScene(paragraphs[i], At(imagePrompts, i))]]]
\* `scenes: [...story.scenes, ...newScenePlaceholders]`: the spread makes an
\* undefined element of an empty slot
onNewStoryPartsGenerated(prev, index, mode, paragraphs, imagePrompts) ==
    LET newScenePlaceholders ==
            [i \in 1..Len(paragraphs) |-> NewScene(paragraphs[i], At(imagePrompts, i))]
        F(story, k) ==
            IF k # index THEN story
            ELSE [story EXCEPT !.scenes = Copy(@) \o newScenePlaceholders,
                               !.storyMode = mode]
    IN  [k \in 1..Len(prev) |-> F(prev[k], k)]

\* `story.scenes.length - newSceneCount + index`
RelativeIndex(length, newSceneCount, index) == index
AbsoluteIndex(length, newSceneCount, index) == length - newSceneCount + index

onNewImageGenerated(prev, activeIndex, newSceneCount, image, index) ==
    LET F(story, k) ==
            IF k # activeIndex THEN story
            ELSE LET absoluteIndex ==
                         AbsoluteIndex(Len(story.scenes), newSceneCount, index)
                 IN  IF Has(story.scenes, absoluteIndex)
                     THEN [story EXCEPT
                             !.scenes = [Copy(@) EXCEPT ![absoluteIndex].image = image]]
                     ELSE [story EXCEPT !.scenes = Copy(@)]
    IN  [k \in 1..Len(prev) |-> F(prev[k], k)]

(***************************************************************************)
(* App: the inputs handleGenerate validates.                               *)
(*                                                                         *)
(* character1 is a File or null.  sceneCount is the text of the scene      *)
(* count field, a sequence of characters; parseInt(text, 10) reads an      *)
(* optional sign and then the longest run of decimal digits, and is NaN    *)
(* when there is none.                                                     *)
(***************************************************************************)
NoFile == "null"
File == "File"

ErrorAtLeastOne == "errorAtLeastOne"
ErrorInvalidSceneCount == "errorInvalidSceneCount"

\* a JavaScript number: an integer, or NaN (every comparison with NaN is false)
Number(value) == [nan |-> FALSE, value |-> value]
NaN == [nan |-> TRUE, value |-> 0]
isNaN(n) == n.nan
Less(n, m) == ~n.nan /\ ~m.nan /\ n.value < m.value

DigitValue ==
    [c \in {"0", "1", "2", "3", "4", "5", "6", "7", "8", "9"} |->
        CASE c = "0" -> 0 [] c = "1" -> 1 [] c = "2" -> 2 [] c = "3" -> 3
          [] c = "4" -> 4 [] c = "5" -> 5 [] c = "6" -> 6 [] c = "7" -> 7
          [] c = "8" -> 8 [] c = "9" -> 9]

\* the value of the longest run of digits at the head of text, after acc
RECURSIVE DigitsValue(_, _)
DigitsValue(text, acc) ==
    IF text = <<>> \/ Head(text) \notin DOMAIN DigitValue THEN acc
    ELSE DigitsValue(Tail(text), 10 * acc + DigitValue[Head(text)])

parseInt(text) ==
    LET signed == text # <<>> /\ Head(text) \in {"-", "+"}
        body == IF signed THEN Tail(text) ELSE text
    IN  IF body = <<>> \/ Head(body) \notin DOMAIN DigitValue THEN NaN
        ELSE IF signed /\ Head(text) = "-" THEN Number(0 - DigitsValue(body, 0))
        ELSE Number(DigitsValue(body, 0))

\* `isNaN(sceneCountNum) || sceneCountNum < 2 || sceneCountNum > 100`
SceneCountMin == 2
SceneCountMax == 100
AnySceneCount(text) == FALSE
isSceneCountInvalid(text) ==
    LET sceneCountNum == parseInt(text)
    IN  \/ isNaN(sceneCountNum)
        \/ Less(sceneCountNum, Number(SceneCountMin))
        \/ Less(Number(SceneCountMax), sceneCountNum)

\* texts the scene count field can hold (a number field gives the text of a
\* floating-point number, or the empty text)
SceneCountTexts ==
    {<<>>, <<"0">>, <<"1">>, <<"2">>, <<"6">>, <<"9", "9">>, <<"1", "0", "0">>,
     <<"1", "0", "1">>, <<"9", "9", "9">>, <<"-", "5">>, <<"0", "0", "7">>,
     <<"1", ".", "9">>, <<"2", ".", "5">>, <<"1", "0", "0", ".", "5">>,
     <<"1", "e", "2">>, <<".", "5">>}

VARIABLES remoteOutcome, validated,
    \* ^ validation alone: the remote call's outcome and what validation made of it
    storyHistory, activeStoryIndex, isLoading, continuationMode, error,
    \* ^ App state
    clock,
    \* ^ the last value Date.now() returned to handleGenerate
    gen,
    \* ^ the pipelines of the batch in flight (<<>> when none), in storyIds order
    cont, contEnv,
    \* ^ the continuation in flight (NoPipe when none) and what its closure holds
    isEditModalOpen, editingSceneIndex, isEditingImage,
    \* ^ App state of the edit dialog
    followUps, started, last,
    \* ^ the follow-up requests in flight, how many were started so far, and
    \*   the one that ended last, with its end ("ok", "error", "threw") as pc
    crashed,
    \* ^ a state updater threw: React has unmounted the application
    character1, sceneCount,
    \* ^ App state of the form: the first character's file (NoFile for null)
    \*   and the text of the scene count field
    generationStep, illustrationProgress
    \* ^ App state of the progress display (NoProgress for null)

parseVars == <<remoteOutcome, validated>>
appVars == <<storyHistory, activeStoryIndex, isLoading, continuationMode, error>>
editVars == <<isEditModalOpen, editingSceneIndex, isEditingImage>>
followVars == <<editVars, followUps, started, last, crashed>>
inputVars == <<character1, sceneCount>>
progressVars == <<generationStep, illustrationProgress>>
sessionVars == <<appVars, clock, gen, cont, contEnv, followVars, inputVars,
                 progressVars>>

vars == <<parseVars, sessionVars>>

NoStory == [id |-> -1, title |-> Undefined, scenes |-> <<>>,
            storyMode |-> "", isLoading |-> FALSE]
NoFollowUp == [kind |-> "", n |-> 0, story |-> NoIndex, scene |-> NoIndex,
               pc |-> "", arg |-> Undefined, before |-> Undefined, requests |-> 0,
               alias |-> FALSE]
NoEnv == [activeStoryIndex |-> NoIndex, mode |-> "", newSceneCount |-> 0,
          currentStory |-> NoStory]

\* A promise reaction runs in the macrotask that settled the promise, before
\* any other event: while one is due no other handler starts.
\*   the .catch of a pipeline that threw
CatchPending == \E p \in DOMAIN gen : gen[p].pc = "returned"
\*   the continuation of `await Promise.allSettled(generationPromises)` of a
\*   call of handleGenerate: gen holds the pipelines of every call in flight,
\*   each with the number of its call as batch
Batches == {gen[p].batch : p \in DOMAIN gen}
BatchOf(b) == SelectSeq(gen, LAMBDA pipe : pipe.batch = b)
OtherBatches(b) == SelectSeq(gen, LAMBDA pipe : pipe.batch # b)
FirstJoined(b) == \E p \in DOMAIN gen : gen[p].batch = b /\ gen[p].pc = "done"
Joined(b) == \A p \in DOMAIN gen : gen[p].batch = b => gen[p].pc = "done"
JoinPending == \E b \in Batches : Joined(b)
\*   the catch and finally of handleContinueStory
ContinuePending == cont.pc = "returned"
Quiescent == ~CatchPending /\ ~JoinPending /\ ~ContinuePending

\* `activeStory && !(activeStory.isLoading && activeStory.scenes.length === 0)`
StoryOutputShown ==
    /\ activeStoryIndex # NoIndex
    /\ ~(storyHistory[activeStoryIndex].isLoading
         /\ storyHistory[activeStoryIndex].scenes = <<>>)

ActiveScenes ==
    IF activeStoryIndex = NoIndex THEN <<>> ELSE storyHistory[activeStoryIndex].scenes

\* the dialog is on screen: App renders it when isEditModalOpen,
\* editingSceneIndex !== null and activeStory; it returns null without an image
ModalShown ==
    /\ isEditModalOpen
    /\ editingSceneIndex # NoIndex
    /\ Has(ActiveScenes, editingSceneIndex)
    /\ ReadyImage(ActiveScenes[editingSceneIndex])

\* rendering throws: `activeStory.scenes[editingSceneIndex].image` of the dialog,
\* or `scene.image` of StoryOutput's map when an element is undefined
RenderThrows ==
    \/ /\ isEditModalOpen
       /\ editingSceneIndex # NoIndex
       /\ activeStoryIndex # NoIndex
       /\ ~Has(ActiveScenes, editingSceneIndex)
    \/ /\ StoryOutputShown
       /\ \E k \in DOMAIN ActiveScenes : ActiveScenes[k] = UndefinedElement

\* an error thrown while rendering or in a state updater unmounts the
\* application: nothing is shown and no state is kept any more.  React
\* renders once per task, after the promise reactions the task has set off:
\* the state between two reactions of one task is never rendered
Dead == crashed \/ (Quiescent /\ RenderThrows)

\* a state setter called by a handler or a callback that is still running:
\* once the application is unmounted the update is dropped (the variables
\* keep the state in which the application died)
setState(current, next) == IF Dead THEN current ELSE next

\* a step of a pipeline leaves an unmounted application unmounted, also
\* while the reactions of its task are still due
Unmounts == crashed' = (crashed \/ Dead)

\* handleEditImage keeps the scene object of the click (`sceneToEdit`) while
\* the character files are read and sends the image that object holds when
\* the reads have ended.  An updater that puts a new object in the scene's
\* place (`newScenes[i] = {...}`, a new scene list) leaves the handler with
\* the old object; an updater that assigns in place (`newScenes[i].image = `)
\* changes the image that will be sent.  places is a set of <<version, scene>>
Holding(f) == f.kind = "edit" /\ f.pc = "encode" /\ f.alias
Replaces(fs, places) ==
    {IF Holding(f) /\ <<f.story, f.scene>> \in places
     THEN [f EXCEPT !.alias = FALSE] ELSE f : f \in fs}
WritesImage(fs, places, image) ==
    {IF Holding(f) /\ <<f.story, f.scene>> \in places
     THEN [f EXCEPT !.arg = image] ELSE f : f \in fs}

\* the places of the scenes of the versions with the id storyId, and of those
\* of them that have a scene at index
PlacesOf(prev, storyId) ==
    UNION {{<<k, s>> : s \in DOMAIN prev[k].scenes} :
              k \in {k \in DOMAIN prev : Matches(prev[k], storyId)}}
\* the place onNewImageGenerated assigns to, when there is a scene
NewImagePlace(prev, activeIndex, newSceneCount, index) ==
    {<<k, AbsoluteIndex(Len(prev[k].scenes), newSceneCount, index)>> :
        k \in {k \in DOMAIN prev :
                  /\ k = activeIndex
                  /\ Has(prev[k].scenes,
                         AbsoluteIndex(Len(prev[k].scenes), newSceneCount, index))}}
PlacesAt(prev, storyId, index) ==
    {<<k, index>> : k \in {k \in DOMAIN prev : /\ Matches(prev[k], storyId)
                                                /\ Has(prev[k].scenes, index)}}

\* the same for an updater that a mounted application alone runs
WhenMounted(fs) == IF Dead THEN followUps ELSE fs

InitApp ==
    /\ storyHistory = <<>>
    /\ activeStoryIndex = NoIndex
    /\ isLoading = FALSE
    /\ continuationMode = ""
    /\ error = ""
    /\ clock = 0
    /\ gen = <<>>
    /\ cont = NoPipe
    /\ contEnv = NoEnv
    /\ isEditModalOpen = FALSE
    /\ editingSceneIndex = NoIndex
    /\ isEditingImage = FALSE
    /\ followUps = {}
    /\ started = 0
    /\ last = NoFollowUp
    /\ crashed = FALSE
    /\ generationStep = 0
    /\ illustrationProgress = NoProgress

\* `useState<File | null>(null)` and `useState<string>('6')`
InitSession ==
    /\ InitApp
    /\ character1 = NoFile
    /\ sceneCount = <<"6">>

InitParse ==
    /\ remoteOutcome \in {Resolved(r) : r \in ParseResponses} \cup {Rejected}
    /\ validated = NotValidated
    /\ InitSession

GenerateStoryCall ==
    /\ validated.by = "none"
    /\ validated' = [by |-> "generateStory",
                     result |-> generateStoryAndPrompts(remoteOutcome)]
    /\ UNCHANGED <<remoteOutcome, sessionVars>>

ContinueStoryCall ==
    /\ validated.by = "none"
    /\ validated' = [by |-> "continueStory",
                     result |-> continueStoryAndPrompts(remoteOutcome)]
    /\ UNCHANGED <<remoteOutcome, sessionVars>>

NextParse == GenerateStoryCall \/ ContinueStoryCall

SpecParse == InitParse /\ [][NextParse]_vars

(***************************************************************************)
(* handleGenerate: the placeholders, then one pipeline per version.        *)
(***************************************************************************)
StoryModes == {"conclude", "extend"}

\* handleProgressUpdate, as a function of the two state variables
handleProgressUpdate(recorded, report) ==
    [generationStep |-> report.step,
     illustrationProgress |->
         IF report.step = 3 /\ report.progress # NoProgress
         THEN report.progress ELSE recorded.illustrationProgress]

\* the display after a pipeline's calls of its progress handler, in order
RECURSIVE Recorded(_, _)
Recorded(recorded, reports) ==
    IF reports = <<>> THEN recorded
    ELSE Recorded(handleProgressUpdate(recorded, Head(reports)), Tail(reports))

\* the calls of updateProgress a pipeline made in this step
NewReports(before, after) ==
    SubSeq(after.reports, Len(before.reports) + 1, Len(after.reports))

\* `index === 0 ? handleProgressUpdate : () => {}`
SharedHandler(index) == TRUE
HasProgressHandler(index) == index = 1

\* the progress display after this step's reports
RecordProgress(reports) ==
    LET after == Recorded([generationStep |-> generationStep,
                           illustrationProgress |-> illustrationProgress], reports)
    IN  /\ generationStep' = setState(generationStep, after.generationStep)
        /\ illustrationProgress' =
               setState(illustrationProgress, after.illustrationProgress)

\* setGenerationStep(0); setIllustrationProgress(null)
ResetProgress ==
    /\ generationStep' = setState(generationStep, 0)
    /\ illustrationProgress' = setState(illustrationProgress, NoProgress)

PlaceholderNotLoading(storyId, n, i, storyMode) ==
    [id |-> storyId, title |-> TGenerating(n, i), scenes |-> <<>>,
     storyMode |-> storyMode, isLoading |-> FALSE]
Placeholder(storyId, n, i, storyMode) ==
    [id |-> storyId, title |-> TGenerating(n, i), scenes |-> <<>>,
     storyMode |-> storyMode, isLoading |-> TRUE]

\* `Date.now() + i`, i counted from 0: the clock is read once per version, now
\* is the sequence of the readings of a request
StoryId(now, i) == now[i] + (i - 1)

\* the Generate button: `isLoading || !!continuationMode || !character1 || isSceneCountInvalid`
GenerationInFlight == isLoading \/ continuationMode # ""
GenerateDisabled ==
    GenerationInFlight \/ character1 = NoFile \/ isSceneCountInvalid(sceneCount)

\* `setActiveStoryIndex(prev.length)` in the updater that appends the
\* placeholders: the position of the first of them
LastPlaceholder(prev, placeholders) == Len(prev) + Len(placeholders)
FirstPlaceholder(prev, placeholders) == Len(prev) + 1

\* the number of the next call of handleGenerate among those in flight
NewBatch == IF gen = <<>> THEN 1 ELSE gen[Len(gen)].batch + 1

\* the position of the pipeline p among the pipelines of its call
IndexInBatch(p) == Cardinality({q \in 1..p : gen[q].batch = gen[p].batch})

\* handleGenerate: the two early returns, then the placeholders and one
\* pipeline per version, whatever else is in flight
handleGenerate(storyVersions, storyMode, now) ==
    IF character1 = NoFile
    THEN /\ error' = setState(error, ErrorAtLeastOne)
         /\ UNCHANGED <<storyHistory, activeStoryIndex, isLoading, clock, gen,
                        progressVars>>
    ELSE IF isSceneCountInvalid(sceneCount)
    THEN /\ error' = setState(error, ErrorInvalidSceneCount)
         /\ UNCHANGED <<storyHistory, activeStoryIndex, isLoading, clock, gen,
                        progressVars>>
    ELSE /\ LET first == Len(storyHistory)
                placeholders == [i \in 1..storyVersions |->
                                    Placeholder(StoryId(now, i), storyVersions, i, storyMode)]
                pipelines == [i \in 1..storyVersions |->
                                 [NewPipe(first + i, StoryId(now, i))
                                     EXCEPT !.batch = NewBatch]]
            IN  /\ storyHistory' = setState(storyHistory, storyHistory \o placeholders)
                /\ activeStoryIndex' =
                       setState(activeStoryIndex,
                                FirstPlaceholder(storyHistory, placeholders))
                /\ gen' = gen \o pipelines
         /\ isLoading' = setState(isLoading, TRUE)
         /\ error' = setState(error, "")
         /\ clock' = now[storyVersions]
         /\ ResetProgress

\* a click on the Generate button
HandleGenerate(storyVersions, storyMode, now) ==
    /\ ~GenerateDisabled
    /\ Quiescent
    /\ handleGenerate(storyVersions, storyMode, now)
    /\ UNCHANGED <<continuationMode, cont, contEnv, parseVars, inputVars, followVars>>

\* handleGenerate run on whatever the form holds, whatever is in flight
CallHandleGenerate(storyVersions, storyMode, now) ==
    /\ Quiescent
    /\ handleGenerate(storyVersions, storyMode, now)
    /\ UNCHANGED <<continuationMode, cont, contEnv, parseVars, inputVars, followVars>>

\* the reads of the character files ended: updateProgress(1) and the story call
GenEncoded(p, loaded) ==
    /\ Quiescent
    /\ p \in DOMAIN gen
    /\ gen[p].pc = "encode"
    /\ gen' = [gen EXCEPT ![p] = Encoded(@, loaded)]
    /\ UNCHANGED <<appVars, clock, cont, contEnv, parseVars, inputVars, followVars>>
    /\ RecordProgress(IF HasProgressHandler(IndexInBatch(p))
                      THEN NewReports(gen[p], gen'[p]) ELSE <<>>)

\* the story call resolved: validation, then the story callback and the first
\* image request, or the rejection and the .catch of handleGenerate
GenStoryResolved(p, outcome) ==
    /\ Quiescent
    /\ p \in DOMAIN gen
    /\ gen[p].pc = "story"
    /\ LET r == generateStoryAndPrompts(outcome)
       IN  /\ gen' = [gen EXCEPT ![p] = IF r.ok THEN StartLoop(@, r.imagePrompts)
                                        ELSE StoryFailed(@, r.error)]
           /\ storyHistory' = setState(storyHistory,
                 IF r.ok
                 THEN onStoryGenerated(storyHistory, gen[p].storyId, r.storyTitle,
                                       r.storyParagraphs, r.imagePrompts)
                 ELSE storyHistory)
    /\ UNCHANGED <<activeStoryIndex, isLoading, continuationMode, error,
                   clock, cont, contEnv, parseVars, inputVars, editVars, started, last>>
    /\ followUps' = WhenMounted(IF generateStoryAndPrompts(outcome).ok
                                THEN Replaces(followUps, PlacesOf(storyHistory, gen[p].storyId))
                                ELSE followUps)
    /\ Unmounts
    /\ RecordProgress(IF HasProgressHandler(IndexInBatch(p))
                      THEN NewReports(gen[p], gen'[p]) ELSE <<>>)

\* an image request resolved: retry after the backoff, or the image callback,
\* then the next scene's request or the end of the pipeline
GenImageResolved(p, req, ok) ==
    /\ Quiescent
    /\ p \in DOMAIN gen
    /\ gen[p].pc = "img"
    /\ req \in gen[p].reqs
    /\ req[1] = gen[p].i
    /\ LET resolved == Resolve(gen[p], req, ok)
       IN  /\ gen' = [gen EXCEPT ![p] =
                         IF EndsIteration(req, ok)
                         THEN EndIteration(resolved,
                                           AllImagesFailed(resolved.failedImageCount,
                                                           Len(resolved.prompts)),
                                           MsgNoImages)
                         ELSE resolved]
           /\ storyHistory' = setState(storyHistory,
                 IF EndsIteration(req, ok)
                 THEN onImageGenerated(storyHistory, gen[p].storyId,
                                       ImageOf(gen[p], req, ok), gen[p].i)
                 ELSE storyHistory)
    /\ UNCHANGED <<activeStoryIndex, isLoading, continuationMode, error,
                   clock, cont, contEnv, parseVars, inputVars, editVars, started, last>>
    /\ followUps' = WhenMounted(IF EndsIteration(req, ok)
                                THEN WritesImage(followUps,
                                                 PlacesAt(storyHistory, gen[p].storyId, gen[p].i),
                                                 ImageOf(gen[p], req, ok))
                                ELSE followUps)
    /\ Unmounts
    /\ RecordProgress(IF HasProgressHandler(IndexInBatch(p))
                      THEN NewReports(gen[p], gen'[p]) ELSE <<>>)

\* the 1 s timer fired: the retry is issued
GenBackoffElapsed(p) ==
    /\ Quiescent
    /\ p \in DOMAIN gen
    /\ gen[p].pc = "backoff"
    /\ gen' = [gen EXCEPT ![p] = Issue(@, {@.i}, 2)]
    /\ UNCHANGED <<appVars, clock, cont, contEnv, parseVars, inputVars, progressVars, followVars>>

\* the pipeline's promise settled: the .catch of handleGenerate marks the
\* version failed and throws again; a fulfilled promise passes through
GenSettled(p) ==
    /\ p \in DOMAIN gen
    /\ gen[p].pc = "returned"
    /\ gen' = [gen EXCEPT ![p].pc = "done"]
    /\ storyHistory' = setState(storyHistory,
          IF gen[p].settled = "rejected"
          THEN onGenerateError(storyHistory, gen[p].storyId, gen[p].error)
          ELSE storyHistory)
    /\ UNCHANGED <<activeStoryIndex, isLoading, continuationMode, error,
                   clock, cont, contEnv, parseVars, inputVars, progressVars, editVars, started, last>>
    /\ followUps' = WhenMounted(IF gen[p].settled = "rejected"
                                THEN Replaces(followUps, PlacesOf(storyHistory, gen[p].storyId))
                                ELSE followUps)
    /\ Unmounts

\* after Promise.allSettled: the fulfilled versions stop loading, then finally
AllSettled ==
    /\ ~CatchPending
    /\ \E b \in Batches :
           /\ Joined(b)
           /\ storyHistory' =
                  setState(storyHistory, onAllSettled(storyHistory, BatchOf(b)))
           /\ gen' = OtherBatches(b)
    /\ isLoading' = setState(isLoading, FALSE)
    /\ UNCHANGED <<activeStoryIndex, continuationMode, error, clock,
                   cont, contEnv, parseVars, inputVars, followUps, editVars, started, last>>
    /\ Unmounts
    /\ ResetProgress

\* a click on a version's tab
SetActiveStoryIndex(index) ==
    /\ Quiescent
    /\ index \in DOMAIN storyHistory
    /\ activeStoryIndex' = index
    /\ UNCHANGED <<storyHistory, isLoading, continuationMode, error,
                   clock, gen, cont, contEnv, parseVars, inputVars, progressVars, followVars>>

(***************************************************************************)
(* handleContinueStory.                                                    *)
(***************************************************************************)
\* StoryOutput is rendered for the active version, with the two continue
\* buttons when its storyMode is extend; isGenerationDisabled disables them
ContinueAlwaysEnabled ==
    /\ activeStoryIndex # NoIndex
    /\ ~(storyHistory[activeStoryIndex].isLoading
         /\ storyHistory[activeStoryIndex].scenes = <<>>)
    /\ storyHistory[activeStoryIndex].storyMode = "extend"
ContinueOffered ==
    /\ activeStoryIndex # NoIndex
    /\ ~(storyHistory[activeStoryIndex].isLoading
         /\ storyHistory[activeStoryIndex].scenes = <<>>)
    /\ storyHistory[activeStoryIndex].storyMode = "extend"
    /\ ~(isLoading \/ continuationMode # "" \/ character1 = NoFile)

\* `isNaN(sceneCountNum) || sceneCountNum < 1 || sceneCountNum > 100`
ContinueCountMin == 1
isContinueCountInvalid(text) ==
    LET sceneCountNum == parseInt(text)
    IN  \/ isNaN(sceneCountNum)
        \/ Less(sceneCountNum, Number(ContinueCountMin))
        \/ Less(Number(SceneCountMax), sceneCountNum)

\* a click on one of the two continue buttons: the early return on the scene
\* count, then the pipeline for the active version
HandleContinueStory(mode) ==
    /\ ContinueOffered
    /\ Quiescent
    /\ IF isContinueCountInvalid(sceneCount)
       THEN /\ error' = ErrorInvalidSceneCount
            /\ UNCHANGED <<continuationMode, cont, contEnv, progressVars>>
       ELSE /\ continuationMode' = mode
            /\ error' = ""
            /\ cont' = NewPipe(activeStoryIndex, storyHistory[activeStoryIndex].id)
            /\ contEnv' = [activeStoryIndex |-> activeStoryIndex, mode |-> mode,
                           newSceneCount |-> 0,
                           currentStory |-> storyHistory[activeStoryIndex]]
            /\ ResetProgress
    /\ UNCHANGED <<storyHistory, activeStoryIndex, isLoading, clock, gen, parseVars,
                   inputVars, followVars>>

ContEncoded(loaded) ==
    /\ Quiescent
    /\ cont.pc = "encode"
    /\ cont' = Encoded(cont, loaded)
    /\ UNCHANGED <<appVars, clock, gen, contEnv, parseVars, inputVars, followVars>>
    /\ RecordProgress(NewReports(cont, cont'))

ContStoryResolved(outcome) ==
    /\ Quiescent
    /\ cont.pc = "story"
    /\ LET r == continueStoryAndPrompts(outcome)
       IN  /\ cont' = IF r.ok THEN StartLoop(cont, r.imagePrompts)
                      ELSE StoryFailed(cont, r.error)
           /\ contEnv' = IF r.ok
                         THEN [contEnv EXCEPT !.newSceneCount = Len(r.storyParagraphs)]
                         ELSE contEnv
           /\ storyHistory' = setState(storyHistory,
                 IF r.ok
                 THEN onNewStoryPartsGenerated(storyHistory, contEnv.activeStoryIndex,
                                               contEnv.mode, r.storyParagraphs,
                                               r.imagePrompts)
                 ELSE storyHistory)
    /\ UNCHANGED <<activeStoryIndex, isLoading, continuationMode, error,
                   clock, gen, parseVars, inputVars, followUps, editVars, started, last>>
    /\ Unmounts
    /\ RecordProgress(NewReports(cont, cont'))

ContImageResolved(req, ok) ==
    /\ Quiescent
    /\ cont.pc = "img"
    /\ req \in cont.reqs
    /\ req[1] = cont.i
    /\ LET resolved == Resolve(cont, req, ok)
       IN  /\ cont' = IF EndsIteration(req, ok)
                      THEN EndIteration(resolved,
                                        ContAllImagesFailed(resolved.failedImageCount,
                                                            Len(resolved.prompts)),
                                        MsgNoNewImages)
                      ELSE resolved
           /\ storyHistory' = setState(storyHistory,
                 IF EndsIteration(req, ok)
                 THEN onNewImageGenerated(storyHistory, contEnv.activeStoryIndex,
                                          contEnv.newSceneCount,
                                          ImageOf(cont, req, ok), cont.i)
                 ELSE storyHistory)
    /\ UNCHANGED <<activeStoryIndex, isLoading, continuationMode, error,
                   clock, gen, contEnv, parseVars, inputVars, editVars, started, last>>
    /\ followUps' = WhenMounted(IF EndsIteration(req, ok)
                                THEN WritesImage(followUps,
                                                 NewImagePlace(storyHistory, contEnv.activeStoryIndex,
                                                               contEnv.newSceneCount, cont.i),
                                                 ImageOf(cont, req, ok))
                                ELSE followUps)
    /\ Unmounts
    /\ RecordProgress(NewReports(cont, cont'))

ContBackoffElapsed ==
    /\ Quiescent
    /\ cont.pc = "backoff"
    /\ cont' = Issue(cont, {cont.i}, 2)
    /\ UNCHANGED <<appVars, clock, gen, contEnv, parseVars, inputVars, progressVars, followVars>>

\* the catch and finally of handleContinueStory
ContinueSettled ==
    /\ ContinuePending
    /\ error' = setState(error, IF cont.settled = "rejected" THEN cont.error ELSE error)
    /\ continuationMode' = setState(continuationMode, "")
    /\ cont' = NoPipe
    /\ contEnv' = NoEnv
    /\ UNCHANGED <<storyHistory, activeStoryIndex, isLoading, clock, gen, parseVars,
                   inputVars, editVars, followUps, started, last>>
    /\ Unmounts
    /\ ResetProgress

(***************************************************************************)
(* The follow-up actions on a scene of the active version: regenerate its   *)
(* image, generate its video prompt, edit its image.  A request in flight   *)
(* is a record                                                             *)
(*   kind     "regenerate", "videoPrompt" or "edit"                         *)
(*   n        its number among the follow-up requests of the session        *)
(*   story, scene   activeStoryIndex and the scene index its closure holds  *)
(*   pc       "encode" reading the character files, "hung" when a read      *)
(*            never settled, "request" awaiting the remote call             *)
(*   arg      what the closure's snapshot of the scene gives the remote     *)
(*            call: the image prompt (regenerate) or the image              *)
(*   alias    an edit reading its files: the scene object it holds is       *)
(*            still the one in the collection                               *)
(*   before   the scene's image (videoPrompt for a video prompt) when the   *)
(*            action started                                                *)
(*   requests how many remote calls it has issued                           *)
(***************************************************************************)
NewFollowUp(kind, n, story, scene, arg, before) ==
    [kind |-> kind, n |-> n, story |-> story, scene |-> scene, pc |-> "encode",
     arg |-> arg, before |-> before, requests |-> 0, alias |-> kind = "edit"]

\* `prev.map((story, index) => index !== activeStoryIndex ? story : ...)` with
\* `newScenes[sceneIndex] = { ...newScenes[sceneIndex], ...patch }`
patchActiveScene(prev, activeIndex, sceneIndex, patch) ==
    [k \in 1..Len(prev) |->
        IF k # activeStoryIndex THEN prev[k]
        ELSE [prev[k] EXCEPT
                !.scenes = Assign(@, sceneIndex, Patch(Spread(@, sceneIndex), patch))]]
patchScene(prev, activeIndex, sceneIndex, patch) ==
    [k \in 1..Len(prev) |->
        IF k # activeIndex THEN prev[k]
        ELSE [prev[k] EXCEPT
                !.scenes = Assign(@, sceneIndex, Patch(Spread(@, sceneIndex), patch))]]

\* the updater of handleEditImage: `newScenes[editingSceneIndex].image = newImage`
\* throws a TypeError when the element is undefined
EditThrows(prev, activeIndex, sceneIndex) ==
    activeIndex \in DOMAIN prev /\ ~Has(prev[activeIndex].scenes, sceneIndex)

replaceImage(prev, activeIndex, sceneIndex, newImage) ==
    [k \in 1..Len(prev) |->
        IF k # activeIndex THEN prev[k]
        ELSE [prev[k] EXCEPT !.scenes = [Copy(@) EXCEPT ![sceneIndex].image = newImage]]]

\* the updater in the catch block of handleGenerateVideoPrompt
LeaveLoading(prev, activeIndex, sceneIndex) == prev
onVideoPromptError(prev, activeIndex, sceneIndex) ==
    patchScene(prev, activeIndex, sceneIndex, [isVideoPromptLoading |-> FALSE])

\* the data URL editImage returns for a base image
EditedImage(baseImage) == Text("edited", baseImage[2], baseImage[3])

\* `response.text.trim()` of generateVideoPrompt
Trim(text) == IF text[1] = "blank" THEN Text("", 0, 0) ELSE text

\* what generateVideoPrompt makes of its remote call for a scene: the call is
\* rejected, the answer has no text (`response.text.trim()` throws), or it
\* has a text, possibly of white space only
VideoPromptOutcomes(story, scene) ==
    {[ok |-> FALSE, text |-> Undefined, error |-> MsgTransport],
     [ok |-> FALSE, text |-> Undefined, error |-> MsgNoText],
     [ok |-> TRUE, text |-> Text("video", story, scene), error |-> ""],
     [ok |-> TRUE, text |-> Text("blank", story, scene), error |-> ""]}

\* the remote call of generateImage or editImage: rejected, or answered with
\* or without an image part
ImageAnswers == {"rejected", "image", "noimage"}

\* generateImage: the data URL of the first image part, or its own error
generateImage(answer, prompt) ==
    CASE answer = "rejected" -> [ok |-> FALSE, image |-> Undefined, error |-> MsgTransport]
      [] answer = "noimage" -> [ok |-> FALSE, image |-> Undefined, error |-> MsgNoImageData]
      [] answer = "image" -> [ok |-> TRUE, image |-> ImageFor(prompt), error |-> ""]

\* editImage: the same for the edited image
editImage(answer, baseImage) ==
    CASE answer = "rejected" -> [ok |-> FALSE, image |-> Undefined, error |-> MsgTransport]
      [] answer = "noimage" -> [ok |-> FALSE, image |-> Undefined, error |-> MsgNoEditData]
      [] answer = "image" -> [ok |-> TRUE, image |-> EditedImage(baseImage), error |-> ""]

\* the page takes a click: the dialog's backdrop covers it while shown
PageClickable == ~Dead /\ Quiescent /\ ~ModalShown

\* ImageUploader's onFileChange (`setCharacter1`): a file chosen, or the
\* image removed
SetCharacter1(file) ==
    /\ PageClickable
    /\ character1' = file
    /\ UNCHANGED <<appVars, clock, gen, cont, contEnv, followVars, sceneCount,
                   parseVars, progressVars>>

\* the scene count field's onChange
SetSceneCount(text) ==
    /\ PageClickable
    /\ sceneCount' = text
    /\ UNCHANGED <<appVars, clock, gen, cont, contEnv, followVars, character1,
                   parseVars, progressVars>>

\* the scene count field's onBlur: `isNaN(num) || num < 2` gives '2',
\* `num > 100` gives '100'
HandleSceneCountBlur ==
    /\ PageClickable
    /\ LET num == parseInt(sceneCount)
       IN  sceneCount' =
              IF isNaN(num) \/ Less(num, Number(SceneCountMin)) THEN <<"2">>
              ELSE IF Less(Number(SceneCountMax), num) THEN <<"1", "0", "0">>
              ELSE sceneCount
    /\ UNCHANGED <<appVars, clock, gen, cont, contEnv, followVars, character1,
                   parseVars, progressVars>>

\* the Regenerate button of a failed scene: shown when the image is neither
\* undefined nor truthy and the scene is not regenerating; the handler
\* returns at once without the first character
HandleRegenerateImage(sceneIndex) ==
    /\ PageClickable
    /\ StoryOutputShown
    /\ character1 # NoFile
    /\ started < MaxStarted
    /\ Has(ActiveScenes, sceneIndex)
    /\ LET scene == ActiveScenes[sceneIndex]
       IN  /\ scene.image # Undefined
           /\ ~TruthyText(scene.image)
           /\ ~scene.isRegenerating
           /\ followUps' = Replaces(followUps, {<<activeStoryIndex, sceneIndex>>}) \cup
                  {NewFollowUp("regenerate", started + 1, activeStoryIndex,
                               sceneIndex, scene.imagePrompt, scene.image)}
    /\ error' = ""
    /\ storyHistory' = patchScene(storyHistory, activeStoryIndex, sceneIndex,
                                  [isRegenerating |-> TRUE])
    /\ started' = started + 1
    /\ UNCHANGED <<activeStoryIndex, isLoading, continuationMode, clock, gen,
                   cont, contEnv, editVars, last, crashed, parseVars, inputVars, progressVars>>

\* the reads of the character files of a follow-up request ended: the remote
\* call is issued with what the handler holds now (for an edit,
\* `sceneToEdit.image`), or the read never settles.  editImage throws before
\* its remote call on an image that was set to null meanwhile, and the catch
\* and the finally of handleEditImage run at once
FollowUpEncoded(f, loaded) ==
    /\ Quiescent
    /\ f \in followUps
    /\ f.pc = "encode"
    /\ IF loaded /\ f.kind = "edit" /\ ~TruthyText(f.arg)
       THEN /\ followUps' = followUps \ {f}
            /\ last' = [f EXCEPT !.pc = "error", !.alias = FALSE]
            /\ error' = setState(error, MsgNoSplit)
            /\ isEditingImage' = setState(isEditingImage, FALSE)
            /\ isEditModalOpen' = setState(isEditModalOpen, FALSE)
            /\ editingSceneIndex' = setState(editingSceneIndex, NoIndex)
       ELSE /\ followUps' = (followUps \ {f}) \cup
                   {IF loaded
                    THEN [f EXCEPT !.pc = "request", !.requests = @ + 1,
                                   !.alias = FALSE]
                    ELSE [f EXCEPT !.pc = "hung"]}
            /\ UNCHANGED <<error, editVars, last>>
    /\ UNCHANGED <<storyHistory, activeStoryIndex, isLoading, continuationMode,
                   clock, gen, cont, contEnv, started, crashed, parseVars,
                   inputVars, progressVars>>

\* generateImage of handleRegenerateImage resolved: the image on success, the
\* error otherwise, then finally
RegenerateResolved(f, answer) ==
    /\ Quiescent
    /\ f \in followUps
    /\ f.kind = "regenerate"
    /\ f.pc = "request"
    /\ LET newImage == generateImage(answer, f.arg)
           shown == IF newImage.ok
                    THEN patchScene(storyHistory, f.story, f.scene,
                                    [image |-> newImage.image])
                    ELSE storyHistory
       IN  /\ storyHistory' = setState(storyHistory,
                  patchScene(shown, f.story, f.scene, [isRegenerating |-> FALSE]))
           /\ error' = setState(error, IF newImage.ok THEN error ELSE newImage.error)
           /\ last' = [f EXCEPT !.pc = IF newImage.ok THEN "ok" ELSE "error"]
    /\ followUps' = WhenMounted(Replaces(followUps, {<<f.story, f.scene>>})) \ {f}
    /\ UNCHANGED <<activeStoryIndex, isLoading, continuationMode, clock, gen,
                   cont, contEnv, editVars, started, crashed, parseVars, inputVars, progressVars>>

\* the video prompt button: shown when the scene has no video prompt and none
\* is loading, disabled without an image
HandleGenerateVideoPrompt(sceneIndex) ==
    /\ PageClickable
    /\ StoryOutputShown
    /\ character1 # NoFile
    /\ started < MaxStarted
    /\ Has(ActiveScenes, sceneIndex)
    /\ LET scene == ActiveScenes[sceneIndex]
       IN  /\ ~TruthyText(scene.videoPrompt)
           /\ ~scene.isVideoPromptLoading
           /\ ReadyImage(scene)
           /\ followUps' = Replaces(followUps, {<<activeStoryIndex, sceneIndex>>}) \cup
                  {NewFollowUp("videoPrompt", started + 1, activeStoryIndex,
                               sceneIndex, scene.image, scene.videoPrompt)}
    /\ storyHistory' = patchScene(storyHistory, activeStoryIndex, sceneIndex,
                                  [isVideoPromptLoading |-> TRUE,
                                   videoPrompt |-> Undefined])
    /\ error' = ""
    /\ started' = started + 1
    /\ UNCHANGED <<activeStoryIndex, isLoading, continuationMode, clock, gen,
                   cont, contEnv, editVars, last, crashed, parseVars, inputVars, progressVars>>

\* generateVideoPrompt resolved
VideoPromptResolved(f, outcome) ==
    /\ Quiescent
    /\ f \in followUps
    /\ f.kind = "videoPrompt"
    /\ f.pc = "request"
    /\ storyHistory' = setState(storyHistory,
          IF outcome.ok
          THEN patchScene(storyHistory, f.story, f.scene,
                          [videoPrompt |-> Trim(outcome.text),
                           isVideoPromptLoading |-> FALSE])
          ELSE onVideoPromptError(storyHistory, f.story, f.scene))
    /\ error' = setState(error, IF outcome.ok THEN error ELSE outcome.error)
    /\ followUps' = WhenMounted(Replaces(followUps, {<<f.story, f.scene>>})) \ {f}
    /\ last' = [f EXCEPT !.pc = IF outcome.ok THEN "ok" ELSE "error"]
    /\ UNCHANGED <<activeStoryIndex, isLoading, continuationMode, clock, gen,
                   cont, contEnv, editVars, started, crashed, parseVars, inputVars, progressVars>>

\* the Edit button of a scene, disabled without an image
HandleOpenEditModal(sceneIndex) ==
    /\ PageClickable
    /\ StoryOutputShown
    /\ Has(ActiveScenes, sceneIndex)
    /\ ReadyImage(ActiveScenes[sceneIndex])
    /\ editingSceneIndex' = sceneIndex
    /\ isEditModalOpen' = TRUE
    /\ UNCHANGED <<appVars, clock, gen, cont, contEnv, isEditingImage,
                   followUps, started, last, crashed, parseVars, inputVars, progressVars>>

\* the dialog's close button or backdrop
HandleCloseEditModal ==
    /\ ~Dead
    /\ Quiescent
    /\ ModalShown
    /\ isEditModalOpen' = FALSE
    /\ editingSceneIndex' = NoIndex
    /\ UNCHANGED <<appVars, clock, gen, cont, contEnv, isEditingImage,
                   followUps, started, last, crashed, parseVars, inputVars, progressVars>>

\* the dialog's generate button (disabled while isLoading or without a prompt):
\* the handler takes the scene object (`sceneToEdit`) and starts reading the
\* character files; arg is the image that object holds, kept up to date by
\* WritesImage until the reads have ended
HandleEditImage ==
    /\ ~Dead
    /\ Quiescent
    /\ ModalShown
    /\ ~isEditingImage
    /\ character1 # NoFile
    /\ started < MaxStarted
    /\ isEditingImage' = TRUE
    /\ error' = ""
    /\ followUps' = followUps \cup
           {NewFollowUp("edit", started + 1, activeStoryIndex, editingSceneIndex,
                        ActiveScenes[editingSceneIndex].image,
                        ActiveScenes[editingSceneIndex].image)}
    /\ started' = started + 1
    /\ UNCHANGED <<storyHistory, activeStoryIndex, isLoading, continuationMode,
                   clock, gen, cont, contEnv, isEditModalOpen, editingSceneIndex,
                   last, crashed, parseVars, inputVars, progressVars>>

\* editImage resolved: the image on success (the updater throws when the scene
\* is gone), the error otherwise, then finally; after the application was
\* unmounted no updater runs
EditResolved(f, answer) ==
    /\ Quiescent
    /\ f \in followUps
    /\ f.kind = "edit"
    /\ f.pc = "request"
    /\ LET newImage == editImage(answer, f.arg)
           throws == /\ ~Dead
                     /\ newImage.ok
                     /\ EditThrows(storyHistory, f.story, f.scene)
       IN  /\ last' = [f EXCEPT !.pc = IF ~newImage.ok THEN "error"
                                      ELSE IF throws THEN "threw" ELSE "ok"]
           /\ IF throws
              THEN /\ crashed' = TRUE
                   /\ followUps' = followUps \ {f}
                   /\ UNCHANGED <<storyHistory, error, editVars>>
              ELSE /\ storyHistory' = setState(storyHistory,
                         IF newImage.ok
                         THEN replaceImage(storyHistory, f.story, f.scene, newImage.image)
                         ELSE storyHistory)
                   /\ error' = setState(error,
                                         IF newImage.ok THEN error ELSE newImage.error)
                   /\ isEditingImage' = setState(isEditingImage, FALSE)
                   /\ isEditModalOpen' = setState(isEditModalOpen, FALSE)
                   /\ editingSceneIndex' = setState(editingSceneIndex, NoIndex)
                   /\ followUps' =
                          WhenMounted(IF newImage.ok
                                      THEN WritesImage(followUps, {<<f.story, f.scene>>},
                                                       newImage.image)
                                      ELSE followUps) \ {f}
                   /\ UNCHANGED crashed
    /\ UNCHANGED <<activeStoryIndex, isLoading, continuationMode, clock, gen,
                   cont, contEnv, started, parseVars, inputVars, progressVars>>

(***************************************************************************)
(* The session.                                                            *)
(***************************************************************************)
Init ==
    /\ remoteOutcome = Rejected
    /\ validated = NotValidated
    /\ InitSession

\* a read, or an image request, ends well or not
Outcomes == {TRUE, FALSE}

RECURSIVE SceneTotal(_, _)
SceneTotal(history, k) ==
    IF k = 0 THEN 0 ELSE Len(history[k].scenes) + SceneTotal(history, k - 1)

\* the longest list a remote story answer may carry now
Room ==
    LET left == MaxScenes - SceneTotal(storyHistory, Len(storyHistory))
    IN  IF left < 0 THEN 0 ELSE Min(MaxLen, left)

\* Date.now() never runs backwards.  Ids are only compared for equality, so
\* every reading later than all ids in use is the same case: the first such
\* reading stands for them all.
Max(a, b) == IF a >= b THEN a ELSE b
RECURSIVE LatestId(_, _)
LatestId(history, k) ==
    IF k = 0 THEN -1 ELSE Max(history[k].id, LatestId(history, k - 1))
DateNow == clock .. Max(clock, LatestId(storyHistory, Len(storyHistory)) + 1)
\* the readings of a request for n versions, one per version: between two
\* of them the clock stands still or advances (one tick stands for any
\* advance)
Readings(n) ==
    LET top == Max(clock, LatestId(storyHistory, Len(storyHistory)) + 1) + n - 1
    IN  {now \in [1..n -> clock..top] :
            /\ now[1] \in DateNow
            /\ \A i \in 1..(n - 1) : now[i + 1] \in {now[i], now[i] + 1}}

\* the first character is chosen; the sessions that use only this leave the
\* form alone afterwards
ChooseCharacter1 == character1 = NoFile /\ SetCharacter1(File)

\* what the user types into the scene count field in the session: a count
\* that no request accepts, and one that only a continuation accepts
TypedSceneCounts == {<<"0">>, <<"1">>}

GenStep(p) ==
    /\ p \in DOMAIN gen
    /\ \/ \E loaded \in Outcomes : GenEncoded(p, loaded)
       \/ \E o \in StoryOutcomes(gen[p].pos, 0, Room) : GenStoryResolved(p, o)
       \/ \E req \in gen[p].reqs, ok \in Outcomes : GenImageResolved(p, req, ok)
       \/ GenBackoffElapsed(p)
       \/ GenSettled(p)

ContStep ==
    \/ \E loaded \in Outcomes : ContEncoded(loaded)
    \/ /\ cont.pc = "story"
       /\ \E o \in StoryOutcomes(cont.pos, Len(storyHistory[cont.pos].scenes), Room) :
              ContStoryResolved(o)
    \/ \E req \in cont.reqs, ok \in Outcomes : ContImageResolved(req, ok)
    \/ ContBackoffElapsed
    \/ ContinueSettled

\* the session of single-version requests (storyVersions = 1) and
\* continuations, with the form changed at any time
Next ==
    \/ \E file \in {NoFile, File} : SetCharacter1(file)
    \/ \E text \in TypedSceneCounts : SetSceneCount(text)
    \/ HandleSceneCountBlur
    \/ \E m \in StoryModes, now \in Readings(1) :
           Len(storyHistory) + 1 <= MaxHistory /\ HandleGenerate(1, m, now)
    \/ \E k \in DOMAIN storyHistory : SetActiveStoryIndex(k)
    \/ \E m \in StoryModes : HandleContinueStory(m)
    \/ \E p \in DOMAIN gen : GenStep(p)
    \/ AllSettled
    \/ ContStep

Spec == Init /\ [][Next]_vars

\* the session of batches: several versions generated concurrently (the
\* callbacks of handleGenerate never read activeStoryIndex: the tabs are left
\* to Spec)
NextBatch ==
    \/ ChooseCharacter1
    \/ \E n \in 1..MaxBatch, m \in StoryModes : \E now \in Readings(n) :
           Len(storyHistory) + n <= MaxBatch /\ HandleGenerate(n, m, now)
    \/ \E p \in DOMAIN gen : GenStep(p)
    \/ AllSettled

SpecBatch == Init /\ [][NextBatch]_vars

\* the session of requests made with whatever the form holds: handleGenerate
\* validates the first character and the scene count
GenerateRefused == character1 = NoFile \/ isSceneCountInvalid(sceneCount)

InitRequest ==
    /\ remoteOutcome = Rejected
    /\ validated = NotValidated
    /\ InitApp
    /\ character1 \in {NoFile, File}
    /\ sceneCount \in SceneCountTexts

\* a step of the pipeline of a story of up to MaxRequestLen scenes
RequestGenStep(p) ==
    /\ p \in DOMAIN gen
    /\ \/ \E loaded \in Outcomes : GenEncoded(p, loaded)
       \/ \E o \in StoryOutcomes(gen[p].pos, 0, MaxRequestLen) : GenStoryResolved(p, o)
       \/ \E req \in gen[p].reqs, ok \in Outcomes : GenImageResolved(p, req, ok)
       \/ GenBackoffElapsed(p)
       \/ GenSettled(p)

\* the form is changed at any time and handleGenerate runs on what it holds,
\* also while earlier requests are in flight; the requests it accepts are
\* counted, those it refuses are not
NextRequest ==
    \/ \E file \in {NoFile, File} : SetCharacter1(file)
    \/ \E text \in TypedSceneCounts : SetSceneCount(text)
    \/ \E m \in StoryModes, now \in Readings(1) :
           /\ ~GenerateRefused => Len(storyHistory) + 1 <= MaxRequestHistory
           /\ CallHandleGenerate(1, m, now)
    \/ \E p \in DOMAIN gen : RequestGenStep(p)
    \/ AllSettled

SpecRequest == InitRequest /\ [][NextRequest]_vars

\* a step of the pipeline of a story of up to MaxFollowLen scenes
FollowGenStep(p) ==
    /\ p \in DOMAIN gen
    /\ \/ \E loaded \in Outcomes : GenEncoded(p, loaded)
       \/ \E o \in StoryOutcomes(gen[p].pos, 0, MaxFollowLen) : GenStoryResolved(p, o)
       \/ \E req \in gen[p].reqs, ok \in Outcomes : GenImageResolved(p, req, ok)
       \/ GenBackoffElapsed(p)
       \/ GenSettled(p)

FollowUpStep(f) ==
    \/ \E loaded \in Outcomes : FollowUpEncoded(f, loaded)
    \/ \E answer \in ImageAnswers : RegenerateResolved(f, answer)
    \/ \E outcome \in VideoPromptOutcomes(f.story, f.scene) : VideoPromptResolved(f, outcome)
    \/ \E answer \in ImageAnswers : EditResolved(f, answer)

\* the session of single-version requests and the follow-up actions on their
\* scenes, while the pipeline runs and afterwards
NextFollowUp ==
    \/ \E file \in {NoFile, File} : SetCharacter1(file)
    \/ \E m \in StoryModes, now \in Readings(1) :
           /\ Len(storyHistory) + 1 <= MaxFollowHistory
           /\ PageClickable
           /\ HandleGenerate(1, m, now)
    \/ \E k \in DOMAIN storyHistory : PageClickable /\ SetActiveStoryIndex(k)
    \/ \E p \in DOMAIN gen : FollowGenStep(p)
    \/ AllSettled
    \/ \E sceneIndex \in 1..MaxFollowLen :
           started < MaxFollowUps /\ HandleRegenerateImage(sceneIndex)
    \/ \E sceneIndex \in 1..MaxFollowLen :
           started < MaxFollowUps /\ HandleGenerateVideoPrompt(sceneIndex)
    \/ \E sceneIndex \in 1..MaxFollowLen : HandleOpenEditModal(sceneIndex)
    \/ HandleCloseEditModal
    \/ started < MaxFollowUps /\ HandleEditImage
    \/ \E f \in followUps : FollowUpStep(f)

SpecFollowUp == Init /\ [][NextFollowUp]_vars

\* a step of the pipeline of a story of up to MaxRegenLen scenes
RegenGenStep(p) ==
    /\ p \in DOMAIN gen
    /\ \/ \E loaded \in Outcomes : GenEncoded(p, loaded)
       \/ \E o \in StoryOutcomes(gen[p].pos, 0, MaxRegenLen) : GenStoryResolved(p, o)
       \/ \E req \in gen[p].reqs, ok \in Outcomes : GenImageResolved(p, req, ok)
       \/ GenBackoffElapsed(p)
       \/ GenSettled(p)

\* the session of one request for a longer story in which the only follow-up
\* action used is Regenerate
NextRegenerate ==
    \/ ChooseCharacter1
    \/ \E m \in StoryModes, now \in Readings(1) :
           /\ storyHistory = <<>>
           /\ PageClickable
           /\ HandleGenerate(1, m, now)
    \/ \E p \in DOMAIN gen : RegenGenStep(p)
    \/ AllSettled
    \/ \E sceneIndex \in 1..MaxRegenLen :
           started < MaxFollowUps /\ HandleRegenerateImage(sceneIndex)
    \/ \E f \in followUps, loaded \in Outcomes : FollowUpEncoded(f, loaded)
    \/ \E f \in followUps, answer \in ImageAnswers : RegenerateResolved(f, answer)

SpecRegenerate == Init /\ [][NextRegenerate]_vars

\* the video prompts and edits of SpecOverlap: after the one regeneration
OverlapFollowUp ==
    /\ started >= 1
    /\ \A f \in followUps : f.kind # "regenerate"

\* the session of one request in which the image of one scene is regenerated
\* first, and video prompts and edits are requested once no regeneration is
\* in flight, while the pipeline runs and afterwards
NextOverlap ==
    \/ ChooseCharacter1
    \/ \E m \in StoryModes, now \in Readings(1) :
           /\ storyHistory = <<>>
           /\ PageClickable
           /\ HandleGenerate(1, m, now)
    \/ \E p \in DOMAIN gen : FollowGenStep(p)
    \/ AllSettled
    \/ \E sceneIndex \in 1..MaxFollowLen :
           started = 0 /\ HandleRegenerateImage(sceneIndex)
    \/ \E sceneIndex \in 1..MaxFollowLen :
           OverlapFollowUp /\ HandleGenerateVideoPrompt(sceneIndex)
    \/ \E sceneIndex \in 1..MaxFollowLen :
           OverlapFollowUp /\ HandleOpenEditModal(sceneIndex)
    \/ HandleCloseEditModal
    \/ OverlapFollowUp /\ HandleEditImage
    \/ \E f \in followUps : FollowUpStep(f)

SpecOverlap == Init /\ [][NextOverlap]_vars

\* a step of the pipeline of a story of up to MaxSwitchLen scenes
SwitchGenStep(p) ==
    /\ p \in DOMAIN gen
    /\ \/ \E loaded \in Outcomes : GenEncoded(p, loaded)
       \/ \E o \in StoryOutcomes(gen[p].pos, 0, MaxSwitchLen) : GenStoryResolved(p, o)
       \/ \E req \in gen[p].reqs, ok \in Outcomes : GenImageResolved(p, req, ok)
       \/ GenBackoffElapsed(p)
       \/ GenSettled(p)

\* the follow-up requests of SpecSwitch: MaxSwitchUps of them, made on versions
\* as generated (none extended by a continuation, none being continued)
SwitchFollowUp ==
    /\ started < MaxSwitchUps
    /\ continuationMode = ""
    /\ \A k \in DOMAIN storyHistory : Len(storyHistory[k].scenes) <= MaxSwitchLen

\* the session of several short versions: requests (of one version or of a
\* batch) and tab clicks at any time,
\* while a follow-up request or a continuation is in flight; a continuation
\* starts when no follow-up request is in flight
NextSwitch ==
    \/ ChooseCharacter1
    \/ \E n \in 1..MaxSwitchHistory, m \in StoryModes : \E now \in Readings(n) :
           /\ Len(storyHistory) + n <= MaxSwitchHistory
           /\ PageClickable
           /\ HandleGenerate(n, m, now)
    \/ \E k \in DOMAIN storyHistory : PageClickable /\ SetActiveStoryIndex(k)
    \/ \E p \in DOMAIN gen : SwitchGenStep(p)
    \/ AllSettled
    \/ \E m \in StoryModes :
           PageClickable /\ followUps = {} /\ HandleContinueStory(m)
    \/ ContStep
    \/ \E sceneIndex \in 1..MaxSwitchLen :
           SwitchFollowUp /\ HandleRegenerateImage(sceneIndex)
    \/ \E sceneIndex \in 1..MaxSwitchLen :
           SwitchFollowUp /\ HandleGenerateVideoPrompt(sceneIndex)
    \/ \E sceneIndex \in 1..MaxSwitchLen :
           SwitchFollowUp /\ HandleOpenEditModal(sceneIndex)
    \/ HandleCloseEditModal
    \/ SwitchFollowUp /\ HandleEditImage
    \/ \E f \in followUps : FollowUpStep(f)

SpecSwitch == Init /\ [][NextSwitch]_vars

(***************************************************************************)
(* Properties of response validation, checked under SpecParse.             *)
(***************************************************************************)
\* the call was made and the remote service answered with a JSON object
Answered ==
    /\ validated.by # "none"
    /\ remoteOutcome.transport = "resolved"
    /\ remoteOutcome.response.text = "object"

\* both list fields of the answer are arrays
BothLists ==
    /\ IsArray(remoteOutcome.response.storyParagraphs)
    /\ IsArray(remoteOutcome.response.imagePrompts)

RawParagraphs == remoteOutcome.response.storyParagraphs.items
RawPrompts == remoteOutcome.response.imagePrompts.items

IsPrefix(s, t) == Len(s) <= Len(t) /\ \A i \in 1..Len(s) : s[i] = t[i]

\* C6: every result validation returns, from generateStory and from
\* continueStory alike, has a paragraph list and a prompt list of the same
\* length, and that length is at least 1.
C6_ValidatedListsEqualNonEmpty ==
    (validated.by # "none" /\ validated.result.ok) =>
        /\ Len(validated.result.storyParagraphs) = Len(validated.result.imagePrompts)
        /\ Len(validated.result.storyParagraphs) >= 1

\* continueStory returned a result for an answer whose lists differ in length
C6_Witness ==
    /\ Answered /\ BothLists
    /\ validated.by = "continueStory"
    /\ validated.result.ok
    /\ Len(RawParagraphs) < Len(RawPrompts)

\* C7: an answer with m paragraphs and n prompts, m # n and both positive, is
\* accepted, and the result holds the first min(m, n) paragraphs and the first
\* min(m, n) prompts of the answer.
C7_MismatchTruncatedToPrefix ==
    (/\ Answered /\ BothLists
     /\ Len(RawParagraphs) # Len(RawPrompts)
     /\ Len(RawParagraphs) > 0 /\ Len(RawPrompts) > 0) =>
        LET minCount == Min(Len(RawParagraphs), Len(RawPrompts))
        IN  /\ validated.result.ok
            /\ Len(validated.result.storyParagraphs) = minCount
            /\ Len(validated.result.imagePrompts) = minCount
            /\ IsPrefix(validated.result.storyParagraphs, RawParagraphs)
            /\ IsPrefix(validated.result.imagePrompts, RawPrompts)

\* generateStory returned the first of three paragraphs with the only prompt
C7_Witness ==
    /\ Answered /\ BothLists
    /\ validated.by = "generateStory"
    /\ Len(RawParagraphs) = 3 /\ Len(RawPrompts) = 1
    /\ validated.result.ok
    /\ validated.result.storyParagraphs = <<RawParagraphs[1]>>
    /\ validated.result.imagePrompts = RawPrompts

\* a list field that is no usable list: missing, null or not an array
NotAList(v) == ~Truthy(v) \/ ~IsArray(v)

\* C8: a list that is empty, missing or not a list makes validation raise the
\* malformed-response failure, and nothing is returned: an answer with exactly
\* one empty list is rejected, not truncated to length 0.
C8_AsStated ==
    (/\ Answered
     /\ \/ NotAList(remoteOutcome.response.storyParagraphs)
        \/ NotAList(remoteOutcome.response.imagePrompts)
        \/ RawParagraphs = <<>>
        \/ RawPrompts = <<>>) =>
        /\ ~validated.result.ok
        /\ validated.result.error = MsgMalformed

(***************************************************************************)
(* Properties of the pipelines, checked under Spec (both pipelines).       *)
(***************************************************************************)
\* the pipelines in flight
Pipelines ==
    {gen[p] : p \in DOMAIN gen} \cup (IF cont.pc = "idle" THEN {} ELSE {cont})

\* the scenes of the version a pipeline works on, and where its scenes start
\* in them: after the j scenes the version had when the continuation began
ScenesOf(pipe) == storyHistory[pipe.pos].scenes
Offset(pipe) == IF pipe = cont THEN Len(contEnv.currentStory.scenes) ELSE 0

\* the caller's rejection handler has replaced the version by the error version
Replaced(pipe) == pipe.pc = "done" /\ pipe.settled = "rejected"

\* the image a scene holds for what the pipeline handed to the image callback
HandedImage(pipe, s) ==
    IF pipe.outcome[s] = "ready" THEN ImageFor(pipe.prompts[s])
    ELSE IF pipe.outcome[s] = "failed" THEN Failed
    ELSE Pending

Sequential(pipe) ==
    /\ Cardinality(pipe.reqs) <= 1
    /\ \A req \in pipe.reqs : pipe.outcome[req[1]] = "none"
    /\ \A s \in DOMAIN pipe.issued :
           pipe.issued[s] > 0 =>
               \A t \in 1..(s - 1) :
                   /\ pipe.issued[t] > 0
                   /\ pipe.outcome[t] # "none"
                   /\ \A req \in pipe.reqs : req[1] # t

\* C1: in the new-story and the continuation pipeline, the image requests of
\* the k scenes are issued in index order without overlap: when a request for
\* a scene has been issued, every earlier scene has had its requests and its
\* attempt (first request and, if that failed, the retry) has resolved; so at
\* most one image request of a pipeline is outstanding at any time.
C1_ImageRequestsSequential == \A pipe \in Pipelines : Sequential(pipe)

\* the continuation awaits the first request of its second scene, after both
\* requests of its first scene failed
C1_Witness ==
    /\ cont.pc = "img"
    /\ cont.outcome[1] = "failed"
    /\ cont.reqs = {<<2, 1>>}

RetryBound(pipe, s) ==
    LET log == pipe.results[s]
        image == ScenesOf(pipe)[Offset(pipe) + s].image
    IN  /\ pipe.issued[s] <= 2
        /\ log \in {<<>>, <<TRUE>>, <<FALSE>>, <<FALSE, TRUE>>, <<FALSE, FALSE>>}
        /\ log = <<TRUE>> =>
               pipe.issued[s] = 1 /\ pipe.outcome[s] = "ready"
        /\ log = <<FALSE, TRUE>> =>
               pipe.issued[s] = 2 /\ pipe.outcome[s] = "ready"
        /\ log = <<FALSE, FALSE>> =>
               pipe.issued[s] = 2 /\ pipe.outcome[s] = "failed"
        /\ ~Replaced(pipe) => image = HandedImage(pipe, s)

\* C2: a pipeline issues at most 2 image requests for a scene.  A scene whose
\* first request succeeds has had exactly 1 request and is ready (it holds the
\* image); one whose first request failed and whose retry succeeded has had
\* exactly 2 and is ready; one whose two requests failed has had exactly 2 and
\* is failed.  The scene holds that state from the image callback to the end
\* of the pipeline and until the caller handles the pipeline's rejection.
C2_AtMostTwoRequestsPerScene ==
    \A pipe \in Pipelines : \A s \in DOMAIN pipe.issued : RetryBound(pipe, s)

\* a pipeline has ended with one scene failed after two requests and another
\* ready after its retry
C2_Witness ==
    \E pipe \in Pipelines :
        /\ pipe.pc = "returned"
        /\ \E s, t \in DOMAIN pipe.results :
               /\ pipe.results[s] = <<FALSE, FALSE>>
               /\ pipe.results[t] = <<FALSE, TRUE>>
               /\ ScenesOf(pipe)[Offset(pipe) + s].image = Failed
               /\ ScenesOf(pipe)[Offset(pipe) + t].image = ImageFor(pipe.prompts[t])

AllFailedMessage(pipe) == IF pipe = cont THEN MsgNoNewImages ELSE MsgNoImages

\* C3: a pipeline whose story stage returned k >= 1 scenes ends rejected with
\* the all-images-failed error if and only if all k scenes ended failed, and
\* ends fulfilled if and only if at least one of them is ready.  For the
\* continuation the k scenes are the new ones only.
C3_FailsIffAllImagesFailed ==
    \A pipe \in Pipelines :
        (pipe.story = "ok" /\ pipe.pc \in {"returned", "done"}) =>
            /\ Len(pipe.prompts) >= 1
            /\ \A s \in DOMAIN pipe.outcome : pipe.outcome[s] \in {"ready", "failed"}
            /\ (pipe.settled = "rejected" /\ pipe.error = AllFailedMessage(pipe))
                   <=> (\A s \in DOMAIN pipe.outcome : pipe.outcome[s] = "failed")
            /\ pipe.settled = "fulfilled"
                   <=> (\E s \in DOMAIN pipe.outcome : pipe.outcome[s] = "ready")

\* a continuation was rejected, all its new scenes failed, although a scene the
\* version had before holds an image
C3_Witness ==
    /\ cont.pc = "returned"
    /\ cont.story = "ok"
    /\ cont.settled = "rejected"
    /\ cont.error = MsgNoNewImages
    /\ \E s \in 1..Offset(cont) : ScenesOf(cont)[s].image[1] = "img"

\* C5: continuing a version of j scenes with a result of p paragraphs gives
\* j + p scenes: the first j are the scenes the version had, unchanged; the
\* last p hold the result's paragraphs and prompts in order; and the image of
\* new scene i is in scene j + i and in no other.
C5_ContinuationAppends ==
    cont.story = "ok" =>
        LET before == contEnv.currentStory.scenes
            j == Len(before)
            p == Len(cont.prompts)
            scenes == ScenesOf(cont)
        IN  /\ contEnv.newSceneCount = p
            /\ Len(scenes) = j + p
            /\ \A s \in 1..j : scenes[s] = before[s]
            /\ \A i \in 1..p :
                   /\ scenes[j + i].paragraph = Text("par", cont.pos, j + i)
                   /\ scenes[j + i].imagePrompt = cont.prompts[i]
                   /\ scenes[j + i].imagePrompt = Text("prm", cont.pos, j + i)
                   /\ scenes[j + i].image = HandedImage(cont, i)

\* a version of one scene was continued by two: the second new scene holds its
\* image, the first one failed
C5_Witness ==
    /\ cont.pc = "returned"
    /\ Len(contEnv.currentStory.scenes) = 1
    /\ Len(cont.prompts) = 2
    /\ cont.outcome = <<"failed", "ready">>
    /\ ScenesOf(cont)[3].image = ImageFor(cont.prompts[2])

\* the version a pipeline was started for is as it was at the start
Untouched(pipe) ==
    IF pipe = cont THEN storyHistory[pipe.pos] = contEnv.currentStory
    ELSE /\ storyHistory[pipe.pos].scenes = <<>>
         /\ storyHistory[pipe.pos].title[1] = "generating"

\* C10: a pipeline makes one story call at most.  When the story call fails
\* (rejected, or answered by a malformed, empty or unparsable response) the
\* pipeline ends rejected with that failure after exactly one story call, the
\* story callback was not invoked (the version is as it was) and no image
\* request was issued.
C10_StoryFailureEndsPipeline ==
    \A pipe \in Pipelines :
        /\ pipe.storyCalls <= 1
        /\ pipe.story = "failed" =>
               /\ pipe.pc \in {"returned", "done"}
               /\ pipe.settled = "rejected"
               /\ pipe.error \in {MsgTransport, MsgMalformed, MsgEmpty, MsgUnparsable}
               /\ pipe.storyCalls = 1
               /\ pipe.storyCbs = 0
               /\ pipe.issued = <<>> /\ pipe.reqs = {}
               /\ pipe.pc = "returned" => Untouched(pipe)

\* the story call of a new-story pipeline was answered by an empty story
C10_Witness ==
    \E p \in DOMAIN gen :
        /\ gen[p].pc = "returned"
        /\ gen[p].story = "failed"
        /\ gen[p].error = MsgEmpty

(***************************************************************************)
(* Properties of a batch of versions, checked under SpecBatch.             *)
(***************************************************************************)
ErrorVersion(story, message) ==
    /\ story.title = TErrorTitle
    /\ story.scenes = <<[NewScene(Message(message), Text("", 0, 0))
                            EXCEPT !.image = Failed]>>
    /\ ~story.isLoading

\* the version is what the pipeline alone has produced so far
OwnProduct(pipe) ==
    LET story == storyHistory[pipe.pos]
    IN  /\ story.id = pipe.storyId
        /\ IF Replaced(pipe) THEN ErrorVersion(story, pipe.error)
           ELSE IF pipe.story = "ok"
           THEN /\ story.title = Text("title", pipe.pos, 0)
                /\ story.scenes =
                       [s \in 1..Len(pipe.prompts) |->
                           [NewScene(Text("par", pipe.pos, s), Text("prm", pipe.pos, s))
                               EXCEPT !.image = HandedImage(pipe, s)]]
                /\ story.isLoading
           ELSE /\ story.title[1] = "generating"
                /\ story.scenes = <<>>
                /\ story.isLoading

\* C4: in a batch of versions generated concurrently, whatever pipelines fail
\* (at the story stage or with all images failed) and however the callbacks
\* interleave, every version of the batch holds exactly what its own pipeline
\* produced: its title, its scenes and their images, or the error version if
\* its own pipeline failed.  When the batch has settled every version is in
\* its terminal state, and once the batch is over no version is loading.
C4_BatchVersionsIndependent ==
    /\ \A p \in DOMAIN gen : gen[p].pos = Len(storyHistory) - Len(gen) + p
    /\ \A p \in DOMAIN gen : OwnProduct(gen[p])
    /\ JoinPending => \A p \in DOMAIN gen :
           \/ Replaced(gen[p])
           \/ /\ gen[p].settled = "fulfilled"
              /\ \A s \in DOMAIN gen[p].outcome : gen[p].outcome[s] # "none"
    /\ gen = <<>> => \A k \in DOMAIN storyHistory : ~storyHistory[k].isLoading

\* the first version of a batch failed at the story stage and was replaced by
\* the error version, the second holds its story and an image
C4_Witness ==
    /\ Len(gen) >= 2
    /\ gen[1].story = "failed" /\ Replaced(gen[1])
    /\ gen[2].story = "ok"
    /\ \E s \in DOMAIN gen[2].outcome :
           /\ gen[2].outcome[s] = "ready"
           /\ storyHistory[gen[2].pos].scenes[s].image = ImageFor(gen[2].prompts[s])

\* Scheduling: a remote call resolves, a timer fires and a promise reaction
\* runs, for every pipeline; a failed file read produces no further event.
FairSpecBatch ==
    /\ SpecBatch
    /\ \A p \in 1..MaxBatch : WF_vars(GenStep(p))
    /\ WF_vars(AllSettled)

\* C9: every version created by handleGenerate eventually has isLoading =
\* false, whether its pipeline succeeded, failed at the story stage or failed
\* with all images failed: no version stays loading forever.
C9_EveryVersionStopsLoading ==
    \A k \in 1..MaxBatch :
        (k \in DOMAIN storyHistory /\ storyHistory[k].isLoading)
            ~> (k \in DOMAIN storyHistory /\ ~storyHistory[k].isLoading)

(***************************************************************************)
(* Properties of the events of a pipeline.                                 *)
(***************************************************************************)
\* the story callback of the pipeline has been applied to its version
StoryShown(pipe) ==
    /\ pipe.storyCbs = 1
    /\ Len(ScenesOf(pipe)) = Offset(pipe) + Len(pipe.prompts)
    /\ \A s \in DOMAIN pipe.prompts :
           ScenesOf(pipe)[Offset(pipe) + s].imagePrompt = pipe.prompts[s]

\* the image callback of scene s has been invoked and applied
ImageShown(pipe, s) ==
    /\ pipe.imageCbs[s] = 1
    /\ pipe.outcome[s] # "none"
    /\ ScenesOf(pipe)[Offset(pipe) + s].image = HandedImage(pipe, s)

EventsOrdered(pipe) ==
    \A s \in DOMAIN pipe.issued :
        /\ pipe.issued[s] > 0 => StoryShown(pipe)
        /\ (pipe.issued[s] > 0 /\ s > 1 /\ ~Replaced(pipe)) => ImageShown(pipe, s - 1)
        /\ (pipe.imageCbs[s] > 0 /\ s > 1) => pipe.imageCbs[s - 1] = 1

\* C11: within one version's pipeline the story callback comes before the
\* first image request, and the image callback of scene N comes before the
\* image request and the image callback of scene N + 1.  (Between the events
\* of different versions there is no order: see the witness.)
C11_PipelineEventsOrdered ==
    \A p \in DOMAIN gen : ~Replaced(gen[p]) => EventsOrdered(gen[p])

\* the second version of a batch already holds its first image while the
\* first version has not made its story call
C11_Witness ==
    /\ Len(gen) >= 2
    /\ gen[1].pc = "encode"
    /\ gen[2].story = "ok"
    /\ Len(gen[2].prompts) >= 2
    /\ ImageShown(gen[2], 1)
    /\ gen[2].issued[2] = 1

CalledOnce(pipe) ==
    /\ \A s \in DOMAIN pipe.imageCbs :
           /\ pipe.imageCbs[s] <= 1
           /\ pipe.imageCbs[s] = 1 <=> pipe.outcome[s] # "none"
           /\ pipe.outcome[s] = "ready" <=> (\E n \in DOMAIN pipe.results[s] : pipe.results[s][n])
           /\ pipe.outcome[s] = "failed" <=> pipe.results[s] = <<FALSE, FALSE>>
           /\ (pipe.imageCbs[s] = 1 /\ ~Replaced(pipe)) =>
                  ScenesOf(pipe)[Offset(pipe) + s].image = HandedImage(pipe, s)
           /\ (pipe.imageCbs[s] = 0 /\ ~Replaced(pipe)) =>
                  ScenesOf(pipe)[Offset(pipe) + s].image = Pending
    /\ pipe.pc \in {"returned", "done"} =>
           \A s \in DOMAIN pipe.imageCbs : pipe.imageCbs[s] = 1
    /\ (pipe.story = "ok" /\ pipe.pc \in {"img", "backoff"}) =>
           /\ pipe.i \in DOMAIN pipe.prompts
           /\ \A s \in DOMAIN pipe.imageCbs : pipe.imageCbs[s] = 1 <=> s < pipe.i

\* C12: the failure of a scene's image does not end the pipeline: after a scene
\* failed twice the loop goes on with the next scene, and when the pipeline ends
\* the image callback has been invoked exactly once for every scene 0..k-1,
\* with the image when an attempt succeeded and with null when both failed.
\* A scene's image is pending until its callback and holds the value handed to
\* the callback from then on.
C12_ImageCallbackOncePerScene == \A pipe \in Pipelines : CalledOnce(pipe)

\* the first scene of a new story failed twice, and the pipeline awaits the
\* request of the second scene
C12_Witness ==
    \E p \in DOMAIN gen :
        /\ gen[p].pc = "img"
        /\ gen[p].results[1] = <<FALSE, FALSE>>
        /\ gen[p].imageCbs = <<1, 0>>
        /\ gen[p].reqs = {<<2, 1>>}
        /\ storyHistory[gen[p].pos].scenes[1].image = Failed

\* C13: from the story callback on, the version of a new-story pipeline holds
\* the generated title and exactly k scenes with the generated paragraphs and
\* prompts in order, before any image has resolved; when the pipeline has
\* succeeded with f failed scenes, 0 <= f < k, every scene's image is ready if
\* one of its requests succeeded and failed otherwise, and none is pending.
C13_PartialFailureKeepsStory ==
    \A p \in DOMAIN gen :
        LET pipe == gen[p]
            story == storyHistory[pipe.pos]
        IN  (pipe.story = "ok" /\ ~Replaced(pipe)) =>
                /\ story.title = Text("title", pipe.pos, 0)
                /\ Len(story.scenes) = Len(pipe.prompts)
                /\ \A s \in DOMAIN story.scenes :
                       /\ story.scenes[s].paragraph = Text("par", pipe.pos, s)
                       /\ story.scenes[s].imagePrompt = Text("prm", pipe.pos, s)
                /\ pipe.settled = "fulfilled" =>
                       /\ pipe.failedImageCount < Len(pipe.prompts)
                       /\ \A s \in DOMAIN story.scenes :
                              story.scenes[s].image =
                                  IF \E n \in DOMAIN pipe.results[s] : pipe.results[s][n]
                                  THEN ImageFor(Text("prm", pipe.pos, s))
                                  ELSE Failed

\* a new story of two scenes succeeded although its first scene failed
C13_Witness ==
    \E p \in DOMAIN gen :
        /\ gen[p].pc = "done"
        /\ gen[p].settled = "fulfilled"
        /\ gen[p].failedImageCount = 1
        /\ storyHistory[gen[p].pos].scenes[1].image = Failed
        /\ storyHistory[gen[p].pos].scenes[2].image = ImageFor(gen[p].prompts[2])

(***************************************************************************)
(* Properties of the collection of versions.                               *)
(***************************************************************************)
\* what handleGenerate appends for the batch whose pipelines are `pipes`
Appended(pipes, history) ==
    [i \in 1..Len(pipes) |->
        [id |-> pipes[i].storyId, title |-> TGenerating(Len(pipes), i),
         scenes |-> <<>>, storyMode |-> history[Len(history)].storyMode,
         isLoading |-> TRUE]]

StartsBatch ==
    (gen = <<>> /\ gen' # <<>>) =>
        /\ storyHistory' = storyHistory \o Appended(gen', storyHistory')
        /\ storyHistory'[Len(storyHistory')].storyMode \in StoryModes
        /\ \A p \in DOMAIN gen' :
               /\ gen'[p].pos = Len(storyHistory) + p
               /\ gen'[p].pc = "encode"
               /\ gen'[p].storyCalls = 0

WritesOwnPlaceholder(p) ==
    LET pipe == gen[p]
        story == storyHistory[pipe.pos]
    IN  /\ story.id = pipe.storyId
        /\ pipe.story = "none" =>
               /\ pipe.storyCbs = 0
               /\ story.scenes = <<>>
               /\ story.isLoading
               /\ story.title = TGenerating(Len(gen), p)
        /\ (pipe.story = "ok" /\ ~Replaced(pipe)) =>
               /\ story.title = Text("title", pipe.pos, 0)
               /\ Len(story.scenes) = Len(pipe.prompts)
        /\ pipe.pc = "done" => ~story.isLoading \/ pipe.settled = "fulfilled"
        /\ Replaced(pipe) => ErrorVersion(story, pipe.error)

\* C14: startGeneration for n versions appends exactly n placeholders (no
\* scenes, loading, the requested ending policy) in one step, before any
\* remote call of the batch is made; what each pipeline produces later is
\* written into the placeholder created for it.
C14_PlaceholdersBeforeRemoteCalls ==
    /\ [][StartsBatch]_vars
    /\ [](\A p \in DOMAIN gen : WritesOwnPlaceholder(p))

\* a batch of two has just been started: two placeholders, no remote call yet
C14_Witness ==
    /\ Len(gen) = 2
    /\ \A p \in DOMAIN gen : gen[p].pc = "encode" /\ gen[p].storyCalls = 0
    /\ Len(storyHistory) = 2
    /\ \A k \in DOMAIN storyHistory :
           storyHistory[k].scenes = <<>> /\ storyHistory[k].isLoading

KeepsVersions ==
    /\ Len(storyHistory') >= Len(storyHistory)
    /\ \A k \in DOMAIN storyHistory : storyHistory'[k].id = storyHistory[k].id

\* C15: no step deletes or reorders versions: the collection only grows at its
\* end, and every version, a failed one included, keeps its id and position.
C15_VersionsAppendOnly == [][KeepsVersions]_vars

\* a version was appended behind a failed one, which is still in its place
C15_Witness ==
    /\ Len(storyHistory) = 2
    /\ storyHistory[1].title = TErrorTitle
    /\ ~storyHistory[1].isLoading
    /\ storyHistory[2].isLoading
    /\ gen # <<>>
    /\ gen[1].pos = 2

\* C16: the ids of all versions in the collection are pairwise distinct, after
\* any sequence of startGeneration requests.
C16_IdsPairwiseDistinct ==
    \A j, k \in DOMAIN storyHistory : j # k => storyHistory[j].id # storyHistory[k].id

\* version k is the one a pipeline that took this step, or that the join
\* after the batch handled, was started for
OwnStep(k) ==
    \E p \in DOMAIN gen :
        /\ gen[p].pos = k
        /\ gen' = <<>> \/ gen'[p] # gen[p]

\* C17: every change a pipeline's callbacks make (story, image, failure, the
\* final loading reset) is a change of the version the pipeline was started
\* for; every other version is left as it was.
C17_CallbacksChangeOwnVersionOnly ==
    [][\A k \in DOMAIN storyHistory : storyHistory'[k] # storyHistory[k] => OwnStep(k)]_vars

(***************************************************************************)
(* Properties of the follow-up actions, checked under SpecFollowUp.        *)
(***************************************************************************)
\* the application is on screen: once it is unmounted there is no state left
\* for a statement about a scene or a version to speak of
Mounted == ~Dead

\* the scene a follow-up request was started on, now and after the step
Target(f) == storyHistory[f.story].scenes[f.scene]
TargetAfter(f) == storyHistory'[f.story].scenes[f.scene]
Targets(f) == Has(storyHistory[f.story].scenes, f.scene)

\* this step starts the follow-up request f
Starts(f, kind) ==
    /\ started' = started + 1
    /\ f \in followUps' \ followUps
    /\ f.kind = kind
\* this step is the end of the remote call of f
Resolves(f, kind) ==
    /\ f \in followUps \ followUps'
    /\ f.kind = kind
    /\ f.pc = "request"

RegenerateMarked ==
    \A f \in followUps :
        f.kind = "regenerate" =>
            /\ f.requests = IF f.pc = "request" THEN 1 ELSE 0
            /\ Targets(f)
            /\ Target(f).isRegenerating

RegenerateStep ==
    /\ \A f \in followUps' :
           Starts(f, "regenerate") =>
               /\ Targets(f)
               /\ f.arg = Target(f).imagePrompt
               /\ f.before = Target(f).image
    /\ \A f \in followUps :
           Resolves(f, "regenerate") =>
               /\ f.requests = 1
               /\ ~TargetAfter(f).isRegenerating
               /\ \/ /\ last'.pc = "ok"
                     /\ TargetAfter(f).image = ImageFor(TargetAfter(f).imagePrompt)
                  \/ /\ last'.pc = "error"
                     /\ TargetAfter(f).image = f.before
                     /\ error' # ""

\* C18: regenerate issues exactly one image request, with the scene's image
\* prompt, and never retries; the scene is marked regenerating from the start
\* of the action until the request resolves and is not regenerating after it;
\* on success the scene's image is the new image, on failure it is the value
\* it had before the action and an error is shown.
C18_RegenerateOnceAndMarked ==
    /\ []RegenerateMarked
    /\ [][Mounted => RegenerateStep]_vars

EditStep ==
    \A f \in followUps :
        Resolves(f, "edit") =>
            /\ ~crashed'
            /\ ~isEditingImage'
            /\ <<activeStoryIndex, isLoading, continuationMode>>'
                   = <<activeStoryIndex, isLoading, continuationMode>>
            /\ \/ /\ last'.pc = "ok"
                  /\ Targets(f)
                  /\ storyHistory' =
                         [storyHistory EXCEPT
                             ![f.story].scenes[f.scene].image = EditedImage(f.before)]
                  /\ error' = error
               \/ /\ last'.pc = "error"
                  /\ storyHistory' = storyHistory
                  /\ error' # ""

\* C19: when the remote call of an edit resolves, the scene's image is the
\* edited image on success, and is unchanged, with an error shown, on failure;
\* in both cases the editing flag is cleared and nothing else of the session
\* (the other scenes and fields, the other versions, the active pointer, the
\* generation flags) is changed.
C19_EditReplacesImageOrReports == [][Mounted => EditStep]_vars

\* the scene of f is there after the step
TargetsAfter(f) ==
    /\ f.story \in DOMAIN storyHistory'
    /\ Has(storyHistory'[f.story].scenes, f.scene)

VideoPromptStarts ==
    \A f \in followUps' :
        Starts(f, "videoPrompt") =>
            /\ TargetAfter(f).isVideoPromptLoading
            /\ f.before = Target(f).videoPrompt

VideoPromptSucceeds(f, outcome) ==
    (outcome.ok /\ VideoPromptResolved(f, outcome)) =>
        /\ TargetsAfter(f)
        /\ ~TargetAfter(f).isVideoPromptLoading
        /\ TargetAfter(f).videoPrompt =
               IF outcome.text[1] = "blank" THEN Text("", 0, 0) ELSE outcome.text

VideoPromptFails(f, outcome) ==
    (~outcome.ok /\ VideoPromptResolved(f, outcome)) =>
        /\ TargetsAfter(f)
        /\ ~TargetAfter(f).isVideoPromptLoading
        /\ TargetAfter(f).videoPrompt = f.before
        /\ error' # ""

\* C20: generate video prompt sets the scene's video-prompt state to loading,
\* and when the remote call resolves the state is idle again, with the
\* returned text as videoPrompt on success, and on failure with the
\* videoPrompt the scene had before the action and an error shown.
C20_AsStated ==
    [][/\ VideoPromptStarts
       /\ \A f \in followUps : \A outcome \in VideoPromptOutcomes(f.story, f.scene) :
              VideoPromptSucceeds(f, outcome) /\ VideoPromptFails(f, outcome)]_vars

(***************************************************************************)
(* Which follow-up actions start, and when (SpecFollowUp).                 *)
(***************************************************************************)
NeedsImage == {"videoPrompt", "edit"}

\* the requests for a video prompt or an edit carry a ready image
CarriesReadyImage ==
    \A f \in followUps : f.kind \in NeedsImage => TruthyText(f.arg)

\* a video prompt or an edit starts on a scene with a ready image only, and
\* hands that image to the remote call
StartsOnReadyImage ==
    \A f \in followUps' :
        (Starts(f, "videoPrompt") \/ Starts(f, "edit")) =>
            /\ Targets(f)
            /\ ReadyImage(Target(f))
            /\ f.arg = Target(f).image

\* C21: edit image and generate video prompt require a ready image: no such
\* action starts, and no remote call is issued, for a scene whose image is
\* pending or failed; every step that starts one finds the scene's image
\* ready, and every request in flight carries a ready image.
C21_NeedReadyImage == []CarriesReadyImage /\ [][StartsOnReadyImage]_vars

\* a video prompt or an edit awaits its remote call while sibling scenes of
\* the version have a failed and a pending image, with no such request
C21_Witness ==
    \E f \in followUps :
        /\ f.kind \in NeedsImage
        /\ f.pc = "request"
        /\ Targets(f)
        /\ \E a, b \in DOMAIN storyHistory[f.story].scenes :
               /\ storyHistory[f.story].scenes[a].image = Failed
               /\ storyHistory[f.story].scenes[b].image = Pending
               /\ \A g \in followUps : g.scene \notin {a, b}

(***************************************************************************)
(* Pipelines per version (Spec).                                           *)
(***************************************************************************)
\* a pipeline of handleGenerate that has not settled yet
Generating(pos) ==
    \E p \in DOMAIN gen : gen[p].pos = pos /\ gen[p].settled = "pending"

ContinuationInFlight == cont # NoPipe

\* no version has both a new-story pipeline and a continuation in flight
OnePipelinePerVersion == ContinuationInFlight => ~Generating(cont.pos)

\* this step starts a continuation
StartsContinuation == cont' # cont /\ cont'.pc = "encode"

\* a continuation starts for the active version, when that version has no
\* pipeline in flight and no other continuation runs
ContinuationStartsAlone ==
    StartsContinuation =>
        /\ ~ContinuationInFlight
        /\ activeStoryIndex # NoIndex
        /\ cont'.pos = activeStoryIndex
        /\ contEnv'.activeStoryIndex = activeStoryIndex
        /\ cont'.storyId = storyHistory[activeStoryIndex].id
        /\ ~Generating(activeStoryIndex)
        /\ ~storyHistory[activeStoryIndex].isLoading

\* C22: continue story runs against the version that is active when it
\* starts, and starts only when no generation and no continuation is in
\* flight for it: no version ever has two pipelines in flight.
C22_OnePipelinePerVersion ==
    []OnePipelinePerVersion /\ [][ContinuationStartsAlone]_vars

\* a continuation awaits an image of the active version after that version's
\* own generation has ended
C22_Witness ==
    /\ ContinuationInFlight
    /\ cont.pc = "img"
    /\ cont.pos = activeStoryIndex
    /\ gen = <<>>
    /\ ~storyHistory[cont.pos].isLoading
    /\ continuationMode # ""

\* a regenerate or an edit starts on a version that is not loading
StartsOnSettledVersion ==
    \A f \in followUps' :
        (Starts(f, "regenerate") \/ Starts(f, "edit")) =>
            ~storyHistory[f.story].isLoading

\* C23: follow-up actions on scenes are disabled while the owning version is
\* loading: no step starts a regenerate or an edit on a scene of a version
\* whose loading flag is true.
C23_NoFollowUpWhileLoading == [][StartsOnSettledVersion]_vars

\* two requests of the same action on the same scene (edit: in the session)
Overlap(f, g) ==
    /\ f # g
    /\ f.kind = g.kind
    /\ f.kind = "edit" \/ (f.story = g.story /\ f.scene = g.scene)

\* C24: no follow-up action overlaps itself: for any scene at most one
\* regenerate request and at most one video-prompt request is in flight at a
\* time, and at most one edit request is in flight in the session.
C24_NoFollowUpOverlapsItself == \A f, g \in followUps : ~Overlap(f, g)

(***************************************************************************)
(* What a follow-up action changes.                                        *)
(***************************************************************************)
\* an empty slot and an undefined element both read as undefined
SameElement(a, b) == a = b \/ {a, b} \subseteq {Hole, UndefinedElement}

\* the step changed nothing of the collection but the scene f targets
OnlyTarget(f) ==
    /\ Len(storyHistory') = Len(storyHistory)
    /\ \A k \in DOMAIN storyHistory :
           k # f.story => storyHistory'[k] = storyHistory[k]
    /\ LET old == storyHistory[f.story]
           new == storyHistory'[f.story]
       IN  /\ new.id = old.id
           /\ new.title = old.title
           /\ new.storyMode = old.storyMode
           /\ new.isLoading = old.isLoading
           /\ DOMAIN new.scenes \ {f.scene} = DOMAIN old.scenes \ {f.scene}
           /\ \A k \in DOMAIN old.scenes \ {f.scene} :
                  SameElement(new.scenes[k], old.scenes[k])

\* the follow-up requests this step starts, advances or ends
ActsOn == (followUps' \ followUps) \cup (followUps \ followUps')

\* C25: a follow-up action (regenerate, edit, video prompt), whether it
\* succeeds or fails, changes only the scene it targets: every step of a
\* follow-up action leaves the sibling scenes of the version and all other
\* versions (title, scenes, continuation policy, loading flag) as they were.
C25_FollowUpChangesOwnSceneOnly ==
    [][\A f \in ActsOn : OnlyTarget(f)]_vars

(***************************************************************************)
(* The validation of a request (SpecRequest).                              *)
(***************************************************************************)
\* the scene count the form holds, as the number it denotes, is in [2, 100]
InRange(n) == ~isNaN(n) /\ SceneCountMin <= n.value /\ n.value <= SceneCountMax

RequestValid == character1 = File /\ InRange(parseInt(sceneCount))

\* a version was created, the active pointer moved, a pipeline (and with it
\* its remote calls) started, or the loading flag of the session was set
StartsGeneration ==
    \/ Len(storyHistory') > Len(storyHistory)
    \/ activeStoryIndex' # activeStoryIndex
    \/ Len(gen') > Len(gen)
    \/ (isLoading' /\ ~isLoading)

\* the error a request with this form surfaces
RefusalOf(file, text) ==
    IF file = NoFile THEN ErrorAtLeastOne ELSE ErrorInvalidSceneCount

\* the step is a request (handleGenerate ran)
Requested == \E m \in StoryModes, now \in Readings(1) : CallHandleGenerate(1, m, now)

\* the request leaves the session as it was, whatever it holds and whatever
\* is in flight, and surfaces the error of the form
OnlySurfacesError ==
    /\ UNCHANGED <<storyHistory, activeStoryIndex, isLoading, continuationMode,
                   clock, gen, cont, contEnv, followVars, inputVars, progressVars>>
    /\ error' = RefusalOf(character1, sceneCount)

\* C26: startGeneration accepts only a scene count in [2,100] and at least
\* the first character image: with a scene count outside that range (or not
\* a number) or without a first character a request creates no version and
\* issues no remote call, the collection and the active pointer stay as they
\* were, whatever the session holds and whatever is in flight, and the only
\* effect of the request is the error it surfaces.
C26_InvalidRequestRejected ==
    [][/\ (Requested /\ ~RequestValid) => OnlySurfacesError
       /\ StartsGeneration => RequestValid]_vars

\* a request with a first character and a scene count that is not a number
\* in [2,100] was made and refused in a session that holds a version whose
\* pipeline is in flight: an accepted request resets the error, so the
\* refused request came after it
C26_Witness ==
    /\ character1 = File
    /\ ~InRange(parseInt(sceneCount))
    /\ error = ErrorInvalidSceneCount
    /\ storyHistory # <<>>
    /\ activeStoryIndex # NoIndex
    /\ \E p \in DOMAIN gen : gen[p].pc = "img"

(***************************************************************************)
(* The session's loading flag (FairSpecBatch).                             *)
(***************************************************************************)
\* every pipeline of the batch has settled
BatchSettled == \A p \in DOMAIN gen : gen[p].settled # "pending"

\* the flag is set exactly while a batch is in flight
LoadingWhileBatch == isLoading <=> gen # <<>>

\* the flag is reset only once every pipeline of the batch has settled
ResetAfterAll == (isLoading /\ ~isLoading') => BatchSettled

\* C27: the caller of a batch waits for all pipelines: isLoading is true
\* from the accepted request until every pipeline of the batch has settled,
\* fulfilled or rejected, is never reset before that, and is reset once
\* they all have, whether none, some or all of them failed.
C27_LoadingUntilAllSettled ==
    /\ []LoadingWhileBatch
    /\ [][ResetAfterAll]_vars
    /\ (gen # <<>> /\ BatchSettled) ~> ~isLoading

\* a batch of two has ended with one version failed and one generated, and
\* the flag is reset
C27_Witness ==
    /\ ~isLoading
    /\ gen = <<>>
    /\ Len(storyHistory) = 2
    /\ storyHistory[1].title = TErrorTitle
    /\ storyHistory[2].title = Text("title", 2, 0)
    /\ storyHistory[1].id # storyHistory[2].id

(***************************************************************************)
(* Progress reports (Spec).                                                *)
(***************************************************************************)
\* the reports of a pipeline that generates k scenes and completes
ExpectedReports(k) ==
    <<Report(1, NoProgress), Report(2, NoProgress)>>
    \o [j \in 1..(k + 1) |-> Report(3, Progress(j - 1, k))]
    \o <<Report(4, NoProgress)>>

ReportedStage4(pipe) ==
    \E j \in DOMAIN pipe.reports : pipe.reports[j].step = 4

\* the reports so far are the expected ones up to the pipeline's position
ReportsInOrder(pipe) ==
    IF pipe.story # "ok"
    THEN pipe.reports = IF pipe.storyCalls = 0 THEN <<>> ELSE <<Report(1, NoProgress)>>
    ELSE LET k == Len(pipe.prompts)
         IN  /\ IsPrefix(pipe.reports, ExpectedReports(k))
             /\ Len(pipe.reports) =
                    2 + pipe.i + IF pipe.settled = "fulfilled" THEN 1 ELSE 0
             /\ \A j \in DOMAIN pipe.reports :
                    pipe.reports[j].step = 3 =>
                        /\ pipe.reports[j].progress.current <= k
                        /\ pipe.reports[j].progress.total = k
             /\ \A j \in 2..Len(pipe.reports) :
                    pipe.reports[j - 1].step <= pipe.reports[j].step

\* C28: the progress reports of one pipeline invocation are a prefix of
\* stage 1, stage 2, stage 3 with (0,k), (1,k), ..., (k,k), stage 4: the
\* stage never decreases, the image counter rises by one per scene and never
\* exceeds the total, and stage 4 is reported if and only if the pipeline
\* completes successfully.
C28_ProgressReportsInOrder ==
    \A pipe \in Pipelines :
        /\ ReportsInOrder(pipe)
        /\ ReportedStage4(pipe) <=> pipe.settled = "fulfilled"

\* a pipeline of two scenes failed on all its images: it has reported every
\* stage-3 count up to (2,2) and no stage 4
C28_Witness ==
    \E pipe \in Pipelines :
        /\ pipe.settled = "rejected"
        /\ Len(pipe.prompts) = 2
        /\ pipe.reports = SubSeq(ExpectedReports(2), 1, 5)

(***************************************************************************)
(* The progress display during a batch (SpecBatch).                        *)
(***************************************************************************)
Display == [generationStep |-> generationStep,
            illustrationProgress |-> illustrationProgress]
Blank == [generationStep |-> 0, illustrationProgress |-> NoProgress]

\* the display shows what the first version's pipeline reported, and nothing
\* when no batch is in flight
DisplayFollowsOne ==
    Display = IF gen = <<>> THEN Blank ELSE Recorded(Blank, gen[1].reports)

\* a step in which only other versions' pipelines report leaves the display
OthersKeepDisplay ==
    (gen # <<>> /\ DOMAIN gen' = DOMAIN gen /\ gen'[1].reports = gen[1].reports)
        => UNCHANGED progressVars

\* C29: the progress callback is per pipeline invocation and not shared: in
\* a batch the reports of one version's pipeline never change the progress
\* recorded for another version's pipeline; the recorded progress follows
\* the stage sequence of a single pipeline and never mixes in another's.
C29_ProgressNotShared == []DisplayFollowsOne /\ [][OthersKeepDisplay]_vars

\* the second version's pipeline has reported its first image while the
\* display still shows stage 1 of the first version's pipeline
C29_Witness ==
    /\ Len(gen) = 2
    /\ gen[1].pc = "story"
    /\ generationStep = 1
    /\ \E j \in DOMAIN gen[2].reports :
           gen[2].reports[j] = Report(3, Progress(1, Len(gen[2].prompts)))

(***************************************************************************)
(* The error kinds of response validation (SpecParse).                     *)
(***************************************************************************)
\* validation ran on a response the remote call delivered, and refused it
Refused ==
    /\ validated.by # "none"
    /\ remoteOutcome.transport = "resolved"
    /\ ~validated.result.ok

\* the error kind a refused response belongs to
KindOf(response) ==
    IF response.text # "object" THEN MsgUnparsable
    ELSE IF NotAList(response.storyParagraphs) \/ NotAList(response.imagePrompts)
    THEN MsgMalformed
    ELSE MsgEmpty

\* C30: response validation gives each response it refuses exactly one error
\* kind: text that does not parse into an object yields the unparsable-
\* response error, and the malformed-response and empty-story errors raised
\* inside validation reach the caller as they are, never as unparsable.
C30_OneErrorKind ==
    Refused =>
        /\ validated.result.error \in {MsgUnparsable, MsgMalformed, MsgEmpty}
        /\ validated.result.error = KindOf(remoteOutcome.response)
        /\ validated.result.storyParagraphs = <<>>
        /\ validated.result.imagePrompts = <<>>

\* continueStory's validation refused a text that is no JSON as unparsable
C30_Witness ==
    /\ Refused
    /\ validated.by = "continueStory"
    /\ remoteOutcome.response.text = "notjson"
    /\ validated.result.error = MsgUnparsable

(***************************************************************************)
(* The shape of the scene lists, checked under SpecRegenerate.             *)
(***************************************************************************)
\* an element of a scene list that is a scene with a paragraph and an image
\* prompt (the error scene's image prompt is the empty text)
WellFormed(element) ==
    /\ IsScene(element)
    /\ element.paragraph # Undefined
    /\ element.imagePrompt # Undefined

\* C31: in every reachable state, every element of every version's scene list
\* is a well-formed scene (it has a paragraph and an image prompt) and the
\* list has no gaps, also when a follow-up action is in flight at the moment
\* its version's pipeline fails and resolves afterwards.
C31_ScenesWellFormed ==
    \A k \in DOMAIN storyHistory :
        \A s \in DOMAIN storyHistory[k].scenes :
            WellFormed(storyHistory[k].scenes[s])

(***************************************************************************)
(* Which version an action in flight writes to, checked under SpecSwitch.  *)
(***************************************************************************)
\* the step left every version but the one at position k as it was
OthersKept(k) ==
    /\ Len(storyHistory') = Len(storyHistory)
    /\ \A j \in DOMAIN storyHistory : j # k => storyHistory'[j] = storyHistory[j]

\* the result of the follow-up request f is in the scene it was started on
ResultAt(f) ==
    /\ Has(storyHistory'[f.story].scenes, f.scene)
    /\ \/ f.kind = "regenerate" /\ TargetAfter(f).image = ImageFor(f.arg)
       \/ f.kind = "edit" /\ TargetAfter(f).image = EditedImage(f.arg)
       \/ /\ f.kind = "videoPrompt"
          /\ \E o \in VideoPromptOutcomes(f.story, f.scene) :
                 o.ok /\ TargetAfter(f).videoPrompt = Trim(o.text)

\* a follow-up request is started on the active version, and its end writes
\* to that version, at the scene index it was started on
FollowUpKeepsTarget ==
    /\ \A f \in followUps' \ followUps :
           started' = started + 1 => f.story = activeStoryIndex /\ OthersKept(f.story)
    /\ \A f \in followUps \ followUps' :
           f.pc = "request" =>
               /\ OthersKept(f.story)
               /\ last'.pc = "ok" => ResultAt(f)

\* a continuation is started on the active version, and each of its steps
\* writes to that version
ContinuationKeepsTarget ==
    /\ cont.pc = "idle" /\ cont'.pc # "idle" =>
           cont'.pos = activeStoryIndex /\ storyHistory' = storyHistory
    /\ cont.pc # "idle" /\ cont' # cont =>
           /\ OthersKept(cont.pos)
           /\ cont'.pc # "idle" => cont'.pos = cont.pos
           /\ cont.story = "none" /\ cont'.story = "ok" =>
                  Len(storyHistory'[cont.pos].scenes) =
                      Len(storyHistory[cont.pos].scenes) + Len(cont'.prompts)

\* C32: the result of a follow-up action or of a continuation is applied to
\* the version (and scene index) that was active when the action was
\* triggered, even if the active-version pointer is changed, or new versions
\* are appended, while the action is in flight (in every step taken while the
\* application is mounted).
C32_ResultGoesToTriggeringVersion ==
    [][Mounted => FollowUpKeepsTarget /\ ContinuationKeepsTarget]_vars

\* a follow-up request ended well on a version that is no longer the active
\* one, and a continuation has produced its story parts for a version that is
\* no longer the active one
C32_Witness ==
    /\ last.pc = "ok"
    /\ last.story # activeStoryIndex
    /\ Len(storyHistory) > last.story
    /\ cont.story = "ok"
    /\ cont.pos # activeStoryIndex

(***************************************************************************)
(* An edit and a video prompt on one scene, checked under SpecOverlap.     *)
(***************************************************************************)
\* what a successful generateVideoPrompt may leave in a scene
VideoResults(story, scene) ==
    {Trim(o.text) : o \in {o \in VideoPromptOutcomes(story, scene) : o.ok}}

\* the follow-up requests f and g are an edit and a video prompt of one scene
EditAndVideoPrompt(f, g) ==
    /\ {f.kind, g.kind} = {"edit", "videoPrompt"}
    /\ f.story = g.story
    /\ f.scene = g.scene

\* the request f ends well in this step
EndsWell(f) ==
    /\ f \in followUps \ followUps'
    /\ f.pc = "request"
    /\ last'.pc \in {"ok", "threw"}

\* f ends well while g is in flight: the scene is still there and gets the
\* result of f, and what g has written and will write is left as it is
FirstKeepsOther(f, g) ==
    /\ Targets(f)
    /\ Has(storyHistory'[f.story].scenes, f.scene)
    /\ LET before == Target(f)
           after == TargetAfter(f)
       IN  IF f.kind = "edit"
           THEN /\ after.image = EditedImage(f.arg)
                /\ after.videoPrompt = before.videoPrompt
                /\ after.isVideoPromptLoading = before.isVideoPromptLoading
           ELSE /\ after.videoPrompt \in VideoResults(f.story, f.scene)
                /\ ~after.isVideoPromptLoading
                /\ after.image = before.image

\* g ended just before, and f and g are the two requests made last
EndedBefore(f, g) ==
    /\ g = last
    /\ g.pc = "ok"
    /\ followUps = {f}
    /\ {f.n, g.n} = {started - 1, started}

\* f ends well after g ended well: the scene has both results
SecondKeepsFirst(f, g) ==
    /\ Has(storyHistory'[f.story].scenes, f.scene)
    /\ LET after == TargetAfter(f)
           edit == IF f.kind = "edit" THEN f ELSE g
       IN  /\ after.image = EditedImage(edit.arg)
           /\ after.videoPrompt \in VideoResults(f.story, f.scene)
           /\ ~after.isVideoPromptLoading

\* C33: follow-up actions that overlap in time on the same scene do not lose
\* each other's results: when an edit and a video-prompt generation for one
\* scene are both in flight and both succeed, the scene ends with the edited
\* image and the generated video prompt, whichever resolves first.
C33_OverlappingResultsKept ==
    [][\A f \in followUps :
           (Mounted /\ EndsWell(f)) =>
               /\ \A g \in followUps' : EditAndVideoPrompt(f, g) => FirstKeepsOther(f, g)
               /\ (EndedBefore(f, last) /\ EditAndVideoPrompt(f, last)) =>
                      SecondKeepsFirst(f, last)]_vars

(***************************************************************************)
(* The version of a failed pipeline, checked under SpecBatch.              *)
(***************************************************************************)
\* the rejection handler of the pipeline p runs in this step
CatchRuns(p) ==
    /\ gen[p].pc = "returned"
    /\ gen[p].settled = "rejected"
    /\ p \in DOMAIN gen'
    /\ gen'[p].pc = "done"

\* the two causes: the story stage failed before anything was stored, or all
\* images failed after the story's scenes had been stored
FailedAtStory(pipe) ==
    /\ pipe.story = "failed"
    /\ pipe.error \in {MsgMalformed, MsgEmpty, MsgUnparsable, MsgTransport}
    /\ storyHistory[pipe.pos].scenes = <<>>
FailedAtImages(pipe) ==
    /\ pipe.story = "ok"
    /\ pipe.error = MsgNoImages
    /\ Len(storyHistory[pipe.pos].scenes) = Len(pipe.prompts)
    /\ storyHistory[pipe.pos].scenes # <<>>
    /\ storyHistory[pipe.pos].title = Text("title", pipe.pos, 0)

\* the handler leaves the error version, whatever the version held
FailureReplaces ==
    \A p \in DOMAIN gen :
        CatchRuns(p) =>
            /\ FailedAtStory(gen[p]) \/ FailedAtImages(gen[p])
            /\ ErrorVersion(storyHistory'[gen[p].pos], gen[p].error)

\* the end of the batch leaves the error versions as they are
JoinKeepsFailed ==
    (gen # <<>> /\ gen' = <<>>) =>
        \A p \in DOMAIN gen :
            Replaced(gen[p]) => storyHistory'[gen[p].pos] = storyHistory[gen[p].pos]

StaysReplaced ==
    \A p \in DOMAIN gen :
        Replaced(gen[p]) => ErrorVersion(storyHistory[gen[p].pos], gen[p].error)

\* C34: when a new-story pipeline fails, for either cause (the story stage
\* failed, or all images failed after the story had been stored in the
\* version), the version ends with loading = false, the error title and
\* exactly one scene whose paragraph is the error message and whose image is
\* failed; the scenes stored earlier for that version are discarded.
C34_FailedVersionIsOneErrorScene ==
    /\ []StaysReplaced
    /\ [][FailureReplaces /\ JoinKeepsFailed]_vars

\* a batch of two: one pipeline failed at the story stage, the other after
\* its story's scenes had been stored, and both versions are error versions
C34_Witness ==
    /\ Len(gen) = 2
    /\ \E p, q \in DOMAIN gen :
           /\ Replaced(gen[p]) /\ gen[p].story = "failed"
           /\ Replaced(gen[q]) /\ gen[q].story = "ok" /\ Len(gen[q].prompts) >= 1
           /\ ErrorVersion(storyHistory[gen[p].pos], gen[p].error)
           /\ ErrorVersion(storyHistory[gen[q].pos], MsgNoImages)

(***************************************************************************)
(* The ends of a continuation, checked under Spec.                         *)
(***************************************************************************)
StoryStageMessages == {MsgMalformed, MsgEmpty, MsgUnparsable, MsgTransport}

\* the catch and finally of handleContinueStory run in this step
ContinuationEnds == cont.pc = "returned" /\ cont'.pc = "idle"

\* while the story of a continuation has not been produced, the collection is
\* what it was and the marker is set
NoPartsNoChange ==
    (cont.pc # "idle" /\ cont.story # "ok") =>
        /\ storyHistory[cont.pos] = contEnv.currentStory
        /\ continuationMode = contEnv.mode
        /\ continuationMode # ""

\* a step of such a continuation changes no version
StoryStageKeepsVersions ==
    (cont.pc # "idle" /\ cont' # cont /\ cont'.story # "ok") =>
        storyHistory' = storyHistory

\* the end of a continuation whose story stage failed: the error is set, the
\* marker cleared, the display reset, and nothing else has changed
StoryFailureEnd ==
    (ContinuationEnds /\ cont.story = "failed") =>
        /\ cont.settled = "rejected"
        /\ cont.error \in StoryStageMessages
        /\ error' = cont.error
        /\ continuationMode' = ""
        /\ storyHistory' = storyHistory
        /\ storyHistory'[cont.pos] = contEnv.currentStory
        /\ storyHistory'[cont.pos].storyMode = "extend"
        /\ UNCHANGED <<activeStoryIndex, isLoading, gen, clock>>
        /\ generationStep' = 0
        /\ illustrationProgress' = NoProgress

\* C35: if the story stage of a continuation fails, the continued version is
\* unchanged: same scenes, same title and same continuation policy as before
\* the request; only the error message and the continuation-in-flight marker
\* change, and the marker is cleared.
C35_StoryFailureKeepsVersion ==
    /\ []NoPartsNoChange
    /\ [][StoryStageKeepsVersions /\ StoryFailureEnd]_vars

\* a continuation has ended on a story stage that returned no story: the
\* error is shown for a version that still has its title, its scenes and the
\* policy extend
C35_Witness ==
    /\ cont.pc = "idle"
    /\ continuationMode = ""
    /\ gen = <<>>
    /\ error = MsgEmpty
    /\ activeStoryIndex # NoIndex
    /\ LET story == storyHistory[activeStoryIndex]
       IN  /\ story.title[1] = "title"
           /\ story.storyMode = "extend"
           /\ Len(story.scenes) >= 1
           /\ \A s \in DOMAIN story.scenes : story.scenes[s].paragraph[1] = "par"

\* the scene a continuation made of new paragraph i, its image having failed
FailedNewScene(pipe, i) ==
    [NewScene(Text("par", pipe.pos, Offset(pipe) + i), pipe.prompts[i])
        EXCEPT !.image = Failed]

\* the end of a continuation that threw after its image loop: the error is
\* set and the marker cleared; the version keeps what the callbacks stored
ImageFailureEnd ==
    (ContinuationEnds /\ cont.story = "ok" /\ cont.settled = "rejected") =>
        LET before == contEnv.currentStory
            story == storyHistory'[cont.pos]
            j == Len(before.scenes)
            p == Len(cont.prompts)
        IN  /\ p >= 1
            /\ cont.error = MsgNoNewImages
            /\ error' = MsgNoNewImages
            /\ continuationMode' = ""
            /\ storyHistory' = storyHistory
            /\ story.id = before.id
            /\ story.title = before.title
            /\ story.isLoading = before.isLoading
            /\ story.storyMode = contEnv.mode
            /\ Len(story.scenes) = j + p
            /\ SubSeq(story.scenes, 1, j) = before.scenes
            /\ \A i \in 1..p : story.scenes[j + i] = FailedNewScene(cont, i)

\* C36: if a continuation fails because all p new images failed, nothing is
\* rolled back: the version keeps its j original scenes followed by the p new
\* scenes with failed images and keeps the continuation policy set by that
\* continuation, and the error is surfaced.
C36_ImageFailureKeepsNewScenes == [][ImageFailureEnd]_vars

\* a continuation with mode conclude has ended with all its new images failed:
\* the version holds its first scene with its image, a new scene without, and
\* the policy conclude
C36_Witness ==
    /\ cont.pc = "idle"
    /\ continuationMode = ""
    /\ error = MsgNoNewImages
    /\ activeStoryIndex # NoIndex
    /\ LET story == storyHistory[activeStoryIndex]
       IN  /\ story.storyMode = "conclude"
           /\ Len(story.scenes) >= 2
           /\ story.scenes[1].image[1] = "img"
           /\ story.scenes[Len(story.scenes)].image = Failed

(***************************************************************************)
(* The loading flags of the versions of a batch, checked under SpecBatch.  *)
(***************************************************************************)
\* while the batch runs a version is loading unless its own pipeline failed
\* and its rejection handler has run
LoadingUnlessFailed ==
    \A p \in DOMAIN gen :
        storyHistory[gen[p].pos].isLoading <=> ~Replaced(gen[p])

\* the rejection handler clears the flag of its version, and of no other
FailureClearsLoading ==
    \A p \in DOMAIN gen :
        CatchRuns(p) =>
            /\ storyHistory[gen[p].pos].isLoading
            /\ ~storyHistory'[gen[p].pos].isLoading
            /\ \A q \in DOMAIN gen \ {p} :
                   storyHistory'[gen[q].pos].isLoading = storyHistory[gen[q].pos].isLoading

\* the flags of the succeeded versions are cleared in one step, when every
\* pipeline of the batch has settled
JoinClearsSucceeded ==
    \A p \in DOMAIN gen :
        (gen[p].settled = "fulfilled" /\ storyHistory[gen[p].pos].isLoading
             /\ ~storyHistory'[gen[p].pos].isLoading) =>
            /\ \A q \in DOMAIN gen : gen[q].pc = "done"
            /\ gen' = <<>>
            /\ \A q \in DOMAIN gen : ~storyHistory'[gen[q].pos].isLoading

\* C37: in a batch, a version whose pipeline failed has its loading flag
\* cleared at the moment of its failure, whereas a version whose pipeline
\* succeeded keeps loading = true until every pipeline of the batch has
\* settled; no succeeded version is marked not-loading while another pipeline
\* of its batch is still running.
C37_LoadingFlagsInBatch ==
    /\ []LoadingUnlessFailed
    /\ [][FailureClearsLoading /\ JoinClearsSucceeded]_vars

\* one pipeline of the batch has succeeded and its version is still loading,
\* the other has failed and its version is not, and the batch has not ended
C37_Witness ==
    /\ Len(gen) = 2
    /\ \E p, q \in DOMAIN gen :
           /\ gen[p].settled = "fulfilled" /\ gen[p].pc = "done"
           /\ storyHistory[gen[p].pos].isLoading
           /\ Replaced(gen[q])
           /\ ~storyHistory[gen[q].pos].isLoading
    /\ isLoading

(***************************************************************************)
(* Pending images.                                                         *)
(***************************************************************************)
\* no new-story batch and no continuation is in flight
NoPipeline == gen = <<>> /\ cont.pc = "idle"

\* C38: whenever no pipeline is in flight (no batch generation and no
\* continuation), no scene of any version has a pending image: every scene
\* created by a pipeline has been resolved to ready or failed by the time
\* that pipeline terminates, successfully or not.
C38_NoPendingImageAtRest ==
    NoPipeline =>
        \A k \in DOMAIN storyHistory :
            \A s \in DOMAIN storyHistory[k].scenes :
                storyHistory[k].scenes[s].image # Pending

(***************************************************************************)
(* The continuation policy (storyMode) of a version, checked under Spec.   *)
(***************************************************************************)
\* the story stage of the continuation in flight succeeds in this step
ContinuationStoryArrives ==
    cont.pc # "idle" /\ cont.story = "none" /\ cont'.story = "ok"

\* the policy of a version is set when its placeholder is made, to the one
\* mode of the request, and again when the story stage of a continuation on
\* it succeeds, to the mode of that continuation; no other step changes it
PolicySetByRequests ==
    /\ \A k \in DOMAIN storyHistory' \ DOMAIN storyHistory :
           /\ storyHistory'[k].storyMode \in StoryModes
           /\ storyHistory'[k].storyMode = storyHistory'[Len(storyHistory')].storyMode
    /\ \A k \in DOMAIN storyHistory :
           /\ k \in DOMAIN storyHistory'
           /\ storyHistory'[k].storyMode =
                  IF ContinuationStoryArrives /\ k = cont.pos
                  THEN continuationMode
                  ELSE storyHistory[k].storyMode

\* a continuation starts on a version whose policy is extend
StartsOnExtend ==
    StartsContinuation => storyHistory[cont'.pos].storyMode = "extend"

\* a version whose policy is conclude keeps it, and no continuation starts on it
ConcludeIsFinal ==
    \A k \in DOMAIN storyHistory :
        storyHistory[k].storyMode = "conclude" =>
            /\ storyHistory'[k].storyMode = "conclude"
            /\ ~(StartsContinuation /\ cont'.pos = k)

\* a continuation in flight is one of the mode shown by the marker, and once
\* its story parts are stored the version has that mode as its policy
PolicyOfContinued ==
    cont.pc # "idle" =>
        /\ continuationMode = contEnv.mode
        /\ continuationMode \in StoryModes
        /\ contEnv.currentStory.storyMode = "extend"
        /\ storyHistory[cont.pos].storyMode =
               IF cont.story = "ok" THEN contEnv.mode ELSE "extend"

\* C39: a version's continuation policy is the mode of the last request whose
\* story stage succeeded for it (the initial generation or a continuation),
\* and a continuation can start only on a version whose policy is extend:
\* once a continuation with mode conclude has produced its story parts, no
\* further continuation ever starts on that version.
C39_PolicyIsLastSuccessfulMode ==
    /\ []PolicyOfContinued
    /\ [][PolicySetByRequests /\ StartsOnExtend /\ ConcludeIsFinal]_vars

\* a version generated with mode extend is being continued with mode
\* conclude: the new scenes are stored with an image, the pipeline has
\* returned and the version's policy is conclude
C39_Witness ==
    /\ cont.pc = "returned"
    /\ cont.settled = "fulfilled"
    /\ contEnv.mode = "conclude"
    /\ contEnv.currentStory.storyMode = "extend"
    /\ storyHistory[cont.pos].storyMode = "conclude"
    /\ Len(storyHistory[cont.pos].scenes) > Len(contEnv.currentStory.scenes)

(***************************************************************************)
(* The active-version pointer, checked under SpecSwitch.                   *)
(***************************************************************************)
\* unset exactly when there is no version, else the position of one
PointerValid ==
    IF storyHistory = <<>> THEN activeStoryIndex = NoIndex
    ELSE activeStoryIndex \in DOMAIN storyHistory

\* this step is an accepted request: it appends the placeholders of a batch
RequestAccepted == Len(storyHistory') > Len(storyHistory)

\* an accepted request points at the first placeholder of its batch
RequestPointsAtFirst ==
    RequestAccepted =>
        /\ activeStoryIndex' = Len(storyHistory) + 1
        /\ Len(gen') = Len(storyHistory') - Len(storyHistory)
        /\ activeStoryIndex' = gen'[1].pos

\* any other step that moves the pointer is a click on a tab: it changes
\* nothing else, so it is no step of a pipeline or of a follow-up action
OnlyTabsMovePointer ==
    (activeStoryIndex' # activeStoryIndex /\ ~RequestAccepted) =>
        /\ activeStoryIndex' \in DOMAIN storyHistory
        /\ UNCHANGED <<storyHistory, isLoading, continuationMode, error, clock,
                       gen, cont, contEnv, followVars, inputVars, progressVars>>

\* C40: the active-version pointer is unset exactly when the version
\* collection is empty and otherwise is a valid index into it; an accepted
\* startGeneration request sets it to the first placeholder of the new batch,
\* and no pipeline callback or follow-up action changes it.
C40_ActivePointer ==
    /\ []PointerValid
    /\ [][RequestPointsAtFirst /\ OnlyTabsMovePointer]_vars

\* a batch of two was requested: the pointer is at its first version, whose
\* pipeline has failed, while a follow-up request on it is in flight and the
\* second pipeline has stored its story
C40_Witness ==
    /\ Len(gen) = 2
    /\ activeStoryIndex = gen[1].pos
    /\ Replaced(gen[1])
    /\ gen[2].story = "ok"
    /\ \E f \in followUps : f.story = activeStoryIndex /\ f.pc = "request"

=============================================================================
